---- MODULE Spec2Model ----
(***************************************************************************)
(* Model of the channel abstraction of color-rs (src/src/channel.rs) and   *)
(* of the hue operations Hsv builds on it (src/src/hsv.rs).                *)
(*                                                                         *)
(* A channel value is a record [enc, v]: enc is one of "u8", "u16", "f32", *)
(* "f64"; v is an integer for the integer encodings and a binary floating  *)
(* point number [m, e] (value m * 2^e, m odd or zero) for the float ones.  *)
(* Float operations compute the exact result and round it to the number of *)
(* significant bits of the format, ties to even, as IEEE 754 does.  NaN,   *)
(* infinities, signed zero and exponent limits are not modelled: no value  *)
(* of the model comes near them.  Significands are TLC integers, below     *)
(* 2^31: an f64 operation is modelled only where its exact result fits,    *)
(* so f64 rounding never loses a bit here.                                 *)
(***************************************************************************)
EXTENDS Integers, Sequences, FiniteSets, TLC

VARIABLES trace, hist

vars == <<trace, hist>>

----------------------------------------------------------------------------
(* Program constants *)

U8_MAX == 255

U16_MAX == 65535

F32_MANTISSA_DIGITS == 24

F64_MANTISSA_DIGITS == 53

(* Bounds of the model *)

MaxOps == 2

GridBits == 3

----------------------------------------------------------------------------
(* Binary floating point *)

Abs(n) == IF n < 0 THEN -n ELSE n

Sign(n) == IF n < 0 THEN -1 ELSE 1

RECURSIVE BitLen(_)
BitLen(n) == IF n = 0 THEN 0 ELSE 1 + BitLen(n \div 2)

RECURSIVE Norm(_, _)
Norm(m, e) ==
    IF m = 0 THEN [m |-> 0, e |-> 0]
    ELSE IF m % 2 = 0 THEN Norm(m \div 2, e + 1)
    ELSE [m |-> m, e |-> e]

F(m, e) == Norm(m, e)

Digits(enc) == IF enc = "f32" THEN F32_MANTISSA_DIGITS ELSE F64_MANTISSA_DIGITS

(* m * 2^e rounded to p significant bits, ties to even *)
RoundSig(m, e, p) ==
    LET a == Abs(m)
        s == BitLen(a) - p
    IN  IF s <= 0 THEN Norm(m, e)
        ELSE LET q    == a \div (2^s)
                 r    == a % (2^s)
                 half == 2^(s - 1)
                 up   == r > half \/ (r = half /\ q % 2 = 1)
             IN  Norm(Sign(m) * (IF up THEN q + 1 ELSE q), e + s)

MinE(a, b) == IF a.e < b.e THEN a.e ELSE b.e

(* the position above the leading bit of a nonzero float *)
Top(a) == BitLen(Abs(a.m)) + a.e

MaxTop(a, b) == IF Top(a) < Top(b) THEN Top(b) ELSE Top(a)

Neg(a) == [m |-> -(a.m), e |-> a.e]

(* a in units of 2^(g-1): exact when a.e >= g, otherwise cut at 2^g with   *)
(* the bits cut off kept as one sticky bit below                           *)
Aligned(a, g) ==
    IF a.e >= g THEN 2 * a.m * 2^(a.e - g)
    ELSE LET n == g - a.e
             x == Abs(a.m)
             q == IF n >= BitLen(x) THEN 0 ELSE x \div (2^n)
             r == IF n >= BitLen(x) THEN x ELSE x % (2^n)
         IN  Sign(a.m) * (2 * q + (IF r # 0 THEN 1 ELSE 0))

(* the exact sum a + b fits a TLC integer without cutting an operand *)
AddFits(a, b) == a.m = 0 \/ b.m = 0 \/ MaxTop(a, b) - MinE(a, b) <= 28

FAdd(a, b, p) ==
    IF a.m = 0 THEN RoundSig(b.m, b.e, p)
    ELSE IF b.m = 0 THEN RoundSig(a.m, a.e, p)
    ELSE LET g == IF AddFits(a, b) THEN MinE(a, b) ELSE MaxTop(a, b) - 28
         IN  RoundSig(Aligned(a, g) + Aligned(b, g), g - 1, p)

FSub(a, b, p) == FAdd(a, Neg(b), p)

(* the product x * y shifted right by k bits, computed without forming it:  *)
(* the k low bits of y are multiplied in from the least significant end,   *)
(* each step shifting one exact product bit out into the sticky flag       *)
RECURSIVE MulLow(_, _, _, _, _)
MulLow(x, y, k, acc, sticky) ==
    IF k = 0 THEN [q |-> acc + x * y, sticky |-> sticky]
    ELSE LET t == acc + (IF y % 2 = 1 THEN x ELSE 0)
         IN  MulLow(x, y \div 2, k - 1, t \div 2, IF t % 2 = 1 THEN 1 ELSE sticky)

FMul(a, b, p) ==
    LET x    == Abs(a.m)
        y    == Abs(b.m)
        wide == BitLen(x) + BitLen(y) - 29
        k    == IF wide > 0 THEN wide ELSE 0
        ms   == MulLow(x, y, k, 0, 0)
    IN  RoundSig(Sign(a.m) * Sign(b.m) * (2 * ms.q + ms.sticky), a.e + b.e + k - 1, p)

(* long division: quotient bits are produced until the quotient has p + 1  *)
(* bits or the remainder is zero; n counts the bits produced               *)
RECURSIVE DivBits(_, _, _, _, _)
DivBits(q, r, d, n, p) ==
    IF r = 0 \/ q >= 2^p THEN [q |-> q, r |-> r, n |-> n]
    ELSE IF 2 * r >= d THEN DivBits(2 * q + 1, 2 * r - d, d, n + 1, p)
    ELSE DivBits(2 * q, 2 * r, d, n + 1, p)

FDiv(a, b, p) ==
    LET x  == Abs(a.m)
        y  == Abs(b.m)
        st == DivBits(x \div y, x % y, y, 0, p)
    IN  RoundSig(Sign(a.m) * Sign(b.m) * (2 * st.q + (IF st.r # 0 THEN 1 ELSE 0)),
                 a.e - b.e - st.n - 1, p)

(* the float remainder, exact, with the sign of the dividend *)
FRem(a, b) ==
    IF a.m = 0 \/ Top(a) < Top(b) THEN a
    ELSE LET e == MinE(a, b)
             x == a.m * 2^(a.e - e)
             y == Abs(b.m) * 2^(b.e - e)
         IN  Norm(Sign(x) * (Abs(x) % y), e)

(* a < b, comparing the leading bit positions before aligning *)
FLt(a, b) ==
    IF a.m <= 0 /\ b.m >= 0 THEN a.m < 0 \/ b.m > 0
    ELSE IF a.m >= 0 /\ b.m <= 0 THEN FALSE
    ELSE LET ta  == BitLen(Abs(a.m)) + a.e
             tb  == BitLen(Abs(b.m)) + b.e
             e   == MinE(a, b)
             neg == a.m < 0
         IN  IF ta # tb THEN (IF neg THEN ta > tb ELSE ta < tb)
             ELSE a.m * 2^(a.e - e) < b.m * 2^(b.e - e)

FromInt(n) == Norm(n, 0)

(* the integer part of a float, rounding toward zero *)
Trunc(a) ==
    IF a.e >= 0 THEN a.m * 2^(a.e)
    ELSE IF -(a.e) >= BitLen(Abs(a.m)) THEN 0
    ELSE Sign(a.m) * (Abs(a.m) \div (2^(-(a.e))))

----------------------------------------------------------------------------
(* Channel values *)

Chan(enc, v) == [enc |-> enc, v |-> v]

IsFloat(enc) == enc \in {"f32", "f64"}

zero == F(0, 0)

one == F(1, 0)

(* variant: the cast rounding to the nearest integer *)
cast_u8_nearest(x) ==
    LET n == Trunc(FAdd(x, F(1, -1), F64_MANTISSA_DIGITS))
    IN  IF 0 <= n /\ n <= U8_MAX THEN {n} ELSE 0..U8_MAX

(* `x as u8` and `x as u16` of a float: the truncated value while it is in  *)
(* range; out of range the cast is undefined and may produce any value     *)
(* variant: an out-of-range cast has no outcome (it aborts) *)
cast_u8_checked(x) ==
    LET n == Trunc(x)
    IN  IF 0 <= n /\ n <= U8_MAX THEN {n} ELSE {}

cast_u8(x) ==
    LET n == Trunc(x)
    IN  IF 0 <= n /\ n <= U8_MAX THEN {n} ELSE 0..U8_MAX

cast_u16(x) ==
    LET n == Trunc(x)
    IN  IF 0 <= n /\ n <= U16_MAX THEN {n} ELSE 0..U16_MAX

(* impl Channel for u8 *)
u8_to_channel_u8(v) == v

(* variant: the byte shifted into the high half only *)
u8_to_channel_u16_shift(v) == (v * 256) % (U16_MAX + 1)

(* (self as u16 << 8) | self as u16: the low byte of the shifted value is  *)
(* zero, so the bitwise or is a sum                                        *)
u8_to_channel_u16(v) == ((v * 256) % (U16_MAX + 1)) + v

u8_to_channel_f32(v) == FDiv(FromInt(v), FromInt(U8_MAX), F32_MANTISSA_DIGITS)

u8_to_channel_f64(v) == FDiv(FromInt(v), FromInt(U8_MAX), F64_MANTISSA_DIGITS)

(* variant: arithmetic negation instead of the complement *)
u8_invert_channel_neg(v) == (U8_MAX + 1 - v) % (U8_MAX + 1)

(* !self: the complement of every bit, 0xFF - v *)
u8_invert_channel(v) == U8_MAX - v

(* impl Channel for u16 *)
(* variants: rounding to the nearest byte; keeping the low byte *)
u16_to_channel_u8_round(v) == ((v + 128) \div 256) % (U8_MAX + 1)

u16_to_channel_u8_low(v) == v % (U8_MAX + 1)

u16_to_channel_u8(v) == (v \div 256) % (U8_MAX + 1)

u16_to_channel_u16(v) == v

(* variant: dividing by 2^16 instead of 0xFFFF *)
u16_to_channel_f32_shift(v) == FromInt(v \div (U16_MAX + 1))

(* (self / 0xFFFF) as f32: the division is the u16 one *)
u16_to_channel_f32(v) == FromInt(v \div U16_MAX)

u16_to_channel_f64(v) == FromInt(v \div U16_MAX)

u16_invert_channel(v) == U16_MAX - v

(* impl Channel for f32 *)
f32_to_channel_u8(x) == cast_u8(FMul(x, FromInt(U8_MAX), F32_MANTISSA_DIGITS))

f32_to_channel_u16(x) == cast_u16(FMul(x, FromInt(U16_MAX), F32_MANTISSA_DIGITS))

f32_to_channel_f32(x) == x

f32_to_channel_f64(x) == RoundSig(x.m, x.e, F64_MANTISSA_DIGITS)

f32_invert_channel(x) == FSub(one, x, F32_MANTISSA_DIGITS)

(* impl Channel for f64 *)
f64_to_channel_u8(x) == cast_u8(FMul(x, FromInt(U8_MAX), F64_MANTISSA_DIGITS))

f64_to_channel_u16(x) == cast_u16(FMul(x, FromInt(U16_MAX), F64_MANTISSA_DIGITS))

f64_to_channel_f32(x) == RoundSig(x.m, x.e, F32_MANTISSA_DIGITS)

f64_to_channel_f64(x) == x

f64_invert_channel(x) == FSub(one, x, F64_MANTISSA_DIGITS)

(* the set of results of c.to_channel_<target>(), dispatched on c's type *)
to_channel_u8(c) ==
    CASE c.enc = "u8"  -> {Chan("u8", u8_to_channel_u8(c.v))}
      [] c.enc = "u16" -> {Chan("u8", u16_to_channel_u8(c.v))}
      [] c.enc = "f32" -> {Chan("u8", n) : n \in f32_to_channel_u8(c.v)}
      [] c.enc = "f64" -> {Chan("u8", n) : n \in f64_to_channel_u8(c.v)}

to_channel_u16(c) ==
    CASE c.enc = "u8"  -> {Chan("u16", u8_to_channel_u16(c.v))}
      [] c.enc = "u16" -> {Chan("u16", u16_to_channel_u16(c.v))}
      [] c.enc = "f32" -> {Chan("u16", n) : n \in f32_to_channel_u16(c.v)}
      [] c.enc = "f64" -> {Chan("u16", n) : n \in f64_to_channel_u16(c.v)}

to_channel_f32(c) ==
    CASE c.enc = "u8"  -> Chan("f32", u8_to_channel_f32(c.v))
      [] c.enc = "u16" -> Chan("f32", u16_to_channel_f32(c.v))
      [] c.enc = "f32" -> Chan("f32", f32_to_channel_f32(c.v))
      [] c.enc = "f64" -> Chan("f32", f64_to_channel_f32(c.v))

to_channel_f64(c) ==
    CASE c.enc = "u8"  -> Chan("f64", u8_to_channel_f64(c.v))
      [] c.enc = "u16" -> Chan("f64", u16_to_channel_f64(c.v))
      [] c.enc = "f32" -> Chan("f64", f32_to_channel_f64(c.v))
      [] c.enc = "f64" -> Chan("f64", f64_to_channel_f64(c.v))

invert_channel(c) ==
    CASE c.enc = "u8"  -> Chan("u8", u8_invert_channel(c.v))
      [] c.enc = "u16" -> Chan("u16", u16_invert_channel(c.v))
      [] c.enc = "f32" -> Chan("f32", f32_invert_channel(c.v))
      [] c.enc = "f64" -> Chan("f64", f64_invert_channel(c.v))

(* self < other on two channel values of one encoding *)
Lt(a, b) == IF IsFloat(a.enc) THEN FLt(a.v, b.v) ELSE a.v < b.v

(* variant: the two bounds returned the wrong way round *)
clamp_swapped(c, lo, hi) ==
    IF Lt(c, lo) THEN hi
    ELSE IF Lt(hi, c) THEN lo
    ELSE c

clamp(c, lo, hi) ==
    IF Lt(c, lo) THEN lo
    ELSE IF Lt(hi, c) THEN hi
    ELSE c

(* trait FloatChannel, on a float x of encoding enc *)
normalize_channel(x, enc) == clamp(Chan(enc, x), Chan(enc, zero), Chan(enc, one)).v

normalize_degrees(x, enc) ==
    IF FLt(x, zero) THEN FRem(FAdd(x, FromInt(360), Digits(enc)), FromInt(360))
    ELSE FRem(x, FromInt(360))

(* variant: the half turn added without reducing the sum *)
invert_degrees_unreduced(x, enc) == FAdd(x, FromInt(180), Digits(enc))

invert_degrees(x, enc) == normalize_degrees(FAdd(x, FromInt(180), Digits(enc)), enc)

----------------------------------------------------------------------------
(* Hsv<T> for a float encoding T *)

Hsv(enc, h, s, v) == [enc |-> enc, h |-> h, s |-> s, v |-> v]

Hsv_inverse(c) ==
    Hsv(c.enc, invert_degrees(c.h, c.enc),
               invert_channel(Chan(c.enc, c.s)).v,
               invert_channel(Chan(c.enc, c.v)).v)

Hsv_normalize(c) ==
    Hsv(c.enc, normalize_degrees(c.h, c.enc),
               normalize_channel(c.s, c.enc),
               normalize_channel(c.v, c.enc))

----------------------------------------------------------------------------
(* Rgb<T> and the conversions between Rgb and Hsv.  The Hsv side is f32:   *)
(* the quotients of an f64 conversion have 53-bit significands.            *)

Rgb(enc, r, g, b) == [enc |-> enc, r |-> r, g |-> g, b |-> b]

FAbs(a) == [m |-> Abs(a.m), e |-> a.e]

FMax(a, b) == IF FLt(a, b) THEN b ELSE a

FMin(a, b) == IF FLt(b, a) THEN b ELSE a

(* Channel::from / to_channel: the set of results of c.to_channel::<U>() *)
to_channel(c, U) ==
    CASE U = "u8"  -> to_channel_u8(c)
      [] U = "u16" -> to_channel_u16(c)
      [] U = "f32" -> {to_channel_f32(c)}
      [] U = "f64" -> {to_channel_f64(c)}

(* impl ToRgb for Rgb: the set of results of c.to_rgb::<U>() *)
Rgb_to_rgb(c, U) ==
    {Rgb(U, r.v, g.v, b.v) : r \in to_channel(Chan(c.enc, c.r), U),
                             g \in to_channel(Chan(c.enc, c.g), U),
                             b \in to_channel(Chan(c.enc, c.b), U)}

(* variant: the sector offsets 2 and 4 left out *)
to_hsv_hue_no_offset(r, g, b, mx, chr, p) ==
    FMul(IF r = mx THEN FRem(FDiv(FSub(g, b, p), chr, p), FromInt(6))
         ELSE IF g = mx THEN FDiv(FSub(b, r, p), chr, p)
         ELSE FDiv(FSub(r, g, p), chr, p),
         FromInt(60), p)

(* to_hsv: let h = if rgb_u.r == mx { .. } else if .. { .. } else { .. } * 60 *)
to_hsv_hue(r, g, b, mx, chr, p) ==
    FMul(IF r = mx THEN FRem(FDiv(FSub(g, b, p), chr, p), FromInt(6))
         ELSE IF g = mx THEN FAdd(FDiv(FSub(b, r, p), chr, p), FromInt(2), p)
         ELSE FAdd(FDiv(FSub(r, g, p), chr, p), FromInt(4), p),
         FromInt(60), p)

(* variant: the saturation is the quotient mx / chr *)
to_hsv_chr_inverted(r, g, b, mx, chr, p) ==
    IF chr # zero
    THEN Hsv("f32", to_hsv_hue(r, g, b, mx, chr, p), FDiv(mx, chr, p), mx)
    ELSE Hsv("f32", zero, zero, mx)

(* to_hsv: if chr != 0 { .. Hsv::new(h, s, mx) } else { Hsv::new(0, 0, mx) } *)
to_hsv_chr(r, g, b, mx, chr, p) ==
    IF chr # zero
    THEN Hsv("f32", to_hsv_hue(r, g, b, mx, chr, p), FDiv(chr, mx, p), mx)
    ELSE Hsv("f32", zero, zero, mx)

(* to_hsv: let chr = mx - mn *)
to_hsv_mx(r, g, b, mx, mn, p) == to_hsv_chr(r, g, b, mx, FSub(mx, mn, p), p)

(* to_hsv: let mx = r.max(g).max(b); let mn = r.min(g).min(b) *)
to_hsv_rgb_u(r, g, b, p) ==
    to_hsv_mx(r, g, b, FMax(FMax(r, g), b), FMin(FMin(r, g), b), p)

(* impl ToHsv for Rgb, for U = f32: let rgb_u = self.to_rgb::<U>() *)
Rgb_to_hsv(c) ==
    to_hsv_rgb_u(to_channel_f32(Chan(c.enc, c.r)).v,
                 to_channel_f32(Chan(c.enc, c.g)).v,
                 to_channel_f32(Chan(c.enc, c.b)).v,
                 F32_MANTISSA_DIGITS)

(* variant: the triples of sectors 4 and 5 exchanged *)
to_rgb_sector_swapped(h, chr, x) ==
    IF FLt(h, FromInt(1)) THEN <<chr, x, zero>>
    ELSE IF FLt(h, FromInt(2)) THEN <<x, chr, zero>>
    ELSE IF FLt(h, FromInt(3)) THEN <<zero, chr, x>>
    ELSE IF FLt(h, FromInt(4)) THEN <<zero, x, chr>>
    ELSE IF FLt(h, FromInt(5)) THEN <<chr, zero, x>>
    ELSE IF FLt(h, FromInt(6)) THEN <<x, zero, chr>>
    ELSE <<zero, zero, zero>>

(* to_rgb: let mut rgb = if h < 1 { .. } else if h < 2 { .. } .. *)
to_rgb_sector(h, chr, x) ==
    IF FLt(h, FromInt(1)) THEN <<chr, x, zero>>
    ELSE IF FLt(h, FromInt(2)) THEN <<x, chr, zero>>
    ELSE IF FLt(h, FromInt(3)) THEN <<zero, chr, x>>
    ELSE IF FLt(h, FromInt(4)) THEN <<zero, x, chr>>
    ELSE IF FLt(h, FromInt(5)) THEN <<x, zero, chr>>
    ELSE IF FLt(h, FromInt(6)) THEN <<chr, zero, x>>
    ELSE <<zero, zero, zero>>

(* variant: mn is not added to the components *)
to_rgb_add_none(rgb, mn, p) == Rgb("f32", rgb[1], rgb[2], rgb[3])

(* to_rgb: rgb.r = rgb.r + mn; rgb.g = rgb.g + mn; rgb.b = rgb.b + mn *)
to_rgb_add(rgb, mn, p) ==
    Rgb("f32", FAdd(rgb[1], mn, p), FAdd(rgb[2], mn, p), FAdd(rgb[3], mn, p))

(* to_rgb: let x = chr * (1 - ((h % 2) - 1).abs()); let mn = self.v - chr *)
to_rgb_chr(v, h, chr, p) ==
    to_rgb_add(to_rgb_sector(h, chr,
                   FMul(chr, FSub(one, FAbs(FSub(FRem(h, FromInt(2)), one, p)), p), p)),
               FSub(v, chr, p), p)

(* impl ToRgb for Hsv<f32>: the float triple before the re-encoding;       *)
(* let chr = self.v * self.s; let h = self.h / 60                          *)
Hsv_rgb_f32(c) ==
    to_rgb_chr(c.v, FDiv(c.h, FromInt(60), F32_MANTISSA_DIGITS),
               FMul(c.v, c.s, F32_MANTISSA_DIGITS), F32_MANTISSA_DIGITS)

(* the set of results of c.to_rgb::<U>() for an Hsv<f32> c *)
Hsv_to_rgb(c, U) == Rgb_to_rgb(Hsv_rgb_f32(c), U)

----------------------------------------------------------------------------
(* Color algebra of Rgb<T> and AlphaColor<T, Rgb<T>> *)

IntMax(enc) == IF enc = "u8" THEN U8_MAX ELSE U16_MAX

(* variant: the sum wraps around *)
saturating_add_wrapping(enc, a, b) == (a + b) % (IntMax(enc) + 1)

(* num::Saturating for the unsigned integers *)
saturating_add(enc, a, b) == IF a + b > IntMax(enc) THEN IntMax(enc) ELSE a + b

saturating_sub(enc, a, b) == IF a < b THEN 0 ELSE a - b

(* impl Saturating for Rgb *)
Rgb_saturating_add(c, v) ==
    Rgb(c.enc, saturating_add(c.enc, c.r, v.r),
               saturating_add(c.enc, c.g, v.g),
               saturating_add(c.enc, c.b, v.b))

Rgb_saturating_sub(c, v) ==
    Rgb(c.enc, saturating_sub(c.enc, c.r, v.r),
               saturating_sub(c.enc, c.g, v.g),
               saturating_sub(c.enc, c.b, v.b))

(* Channel::normalized_mul and normalized_div: the operands are mapped to   *)
(* [0,1], multiplied or divided there, and the result is re-encoded in the *)
(* encoding of the operands; for a float encoding the plain product and    *)
(* quotient                                                                *)
normalized_mul(enc, a, b) ==
    IF IsFloat(enc) THEN {FMul(a, b, Digits(enc))}
    ELSE {y.v : y \in to_channel(Chan("f32", FMul(to_channel_f32(Chan(enc, a)).v,
                                                  to_channel_f32(Chan(enc, b)).v,
                                                  F32_MANTISSA_DIGITS)), enc)}

normalized_div(enc, a, b) ==
    IF IsFloat(enc) THEN {FDiv(a, b, Digits(enc))}
    ELSE {y.v : y \in to_channel(Chan("f32", FDiv(to_channel_f32(Chan(enc, a)).v,
                                                  to_channel_f32(Chan(enc, b)).v,
                                                  F32_MANTISSA_DIGITS)), enc)}

(* variant: the raw product of the components, wrapping *)
Rgb_mul_raw(c, rhs) ==
    {Rgb(c.enc, (c.r * rhs.r) % (IntMax(c.enc) + 1),
                (c.g * rhs.g) % (IntMax(c.enc) + 1),
                (c.b * rhs.b) % (IntMax(c.enc) + 1))}

(* impl Mul for Rgb: the set of results of c * rhs *)
Rgb_mul(c, rhs) ==
    {Rgb(c.enc, r, g, b) : r \in normalized_mul(c.enc, c.r, rhs.r),
                           g \in normalized_mul(c.enc, c.g, rhs.g),
                           b \in normalized_mul(c.enc, c.b, rhs.b)}

(* impl Div for Rgb: the set of results of c / rhs *)
Rgb_div(c, rhs) ==
    {Rgb(c.enc, r, g, b) : r \in normalized_div(c.enc, c.r, rhs.r),
                           g \in normalized_div(c.enc, c.g, rhs.g),
                           b \in normalized_div(c.enc, c.b, rhs.b)}

(* the integer quotient rounded toward zero *)
TruncDiv(n, d) == Sign(n) * (Abs(n) \div d)

(* Channel::mix: self + (other - self) * t, t taken as a fraction of the   *)
(* maximum                                                                 *)
mix(enc, a, b, t) ==
    IF IsFloat(enc) THEN FAdd(a, FMul(FSub(b, a, Digits(enc)), t, Digits(enc)), Digits(enc))
    ELSE a + TruncDiv((b - a) * t, IntMax(enc))

(* variant: self and other exchanged *)
Rgb_mix_exchanged(c, other, t) ==
    Rgb(c.enc, mix(c.enc, other.r, c.r, t),
               mix(c.enc, other.g, c.g, t),
               mix(c.enc, other.b, c.b, t))

(* impl Color for Rgb: mix *)
Rgb_mix(c, other, t) ==
    Rgb(c.enc, mix(c.enc, c.r, other.r, t),
               mix(c.enc, c.g, other.g, t),
               mix(c.enc, c.b, other.b, t))

(* impl Color for Rgb: clamp_s, clamp_c, inverse *)
Rgb_clamp_s(c, lo, hi) ==
    Rgb(c.enc, clamp(Chan(c.enc, c.r), Chan(c.enc, lo), Chan(c.enc, hi)).v,
               clamp(Chan(c.enc, c.g), Chan(c.enc, lo), Chan(c.enc, hi)).v,
               clamp(Chan(c.enc, c.b), Chan(c.enc, lo), Chan(c.enc, hi)).v)

Rgb_clamp_c(c, lo, hi) ==
    Rgb(c.enc, clamp(Chan(c.enc, c.r), Chan(c.enc, lo.r), Chan(c.enc, hi.r)).v,
               clamp(Chan(c.enc, c.g), Chan(c.enc, lo.g), Chan(c.enc, hi.g)).v,
               clamp(Chan(c.enc, c.b), Chan(c.enc, lo.b), Chan(c.enc, hi.b)).v)

Rgb_inverse(c) ==
    Rgb(c.enc, invert_channel(Chan(c.enc, c.r)).v,
               invert_channel(Chan(c.enc, c.g)).v,
               invert_channel(Chan(c.enc, c.b)).v)

(* AlphaColor<T, Rgb<T>> *)
AlphaColor(c, a) == [c |-> c, a |-> a]

(* impl Color for AlphaColor: clamp_s, clamp_c, inverse *)
AlphaColor_clamp_s(x, lo, hi) ==
    AlphaColor(Rgb_clamp_s(x.c, lo, hi),
               clamp(Chan(x.c.enc, x.a), Chan(x.c.enc, lo), Chan(x.c.enc, hi)).v)

AlphaColor_clamp_c(x, lo, hi) ==
    AlphaColor(Rgb_clamp_c(x.c, lo.c, hi.c),
               clamp(Chan(x.c.enc, x.a), Chan(x.c.enc, lo.a), Chan(x.c.enc, hi.a)).v)

(* variant: the color is inverted and the alpha kept *)
AlphaColor_inverse_opaque(x) == AlphaColor(Rgb_inverse(x.c), x.a)

AlphaColor_inverse(x) ==
    AlphaColor(Rgb_inverse(x.c), invert_channel(Chan(x.c.enc, x.a)).v)

(* impl Color for AlphaColor: mix *)
AlphaColor_mix(x, other, t) ==
    AlphaColor(Rgb_mix(x.c, other.c, t), mix(x.c.enc, x.a, other.a, t))

(* impl AsRef<[T]> / AsMut<[T]>: the components as a slice, three of an Rgb *)
(* and four of an AlphaColor, whose opacity follows the color              *)
as_ref(x) ==
    IF "a" \in DOMAIN x THEN <<x.c.r, x.c.g, x.c.b, x.a>> ELSE <<x.r, x.g, x.b>>

(* the color x after v is stored through as_mut()[i] or index_mut(i) *)
stored(x, i, v) ==
    IF "a" \in DOMAIN x
    THEN CASE i = 0 -> [x EXCEPT !.c.r = v]
           [] i = 1 -> [x EXCEPT !.c.g = v]
           [] i = 2 -> [x EXCEPT !.c.b = v]
           [] i = 3 -> [x EXCEPT !.a = v]
    ELSE CASE i = 0 -> [x EXCEPT !.r = v]
           [] i = 1 -> [x EXCEPT !.g = v]
           [] i = 2 -> [x EXCEPT !.b = v]

(* a call that ends in a failure (fail! / panic) instead of a value *)
Fail(msg) == [fail |-> msg]

IsFail(x) == "fail" \in DOMAIN x

(* a packed integer color, 0xAARRGGBB, of 32 or 64 bits *)
Packed(bits, n) == [bits |-> bits, n |-> n]

(* (n >> 8*i) & 0xff *)
Byte(n, i) == (n \div 2^(8 * i)) % (U8_MAX + 1)

(* impl ToRgb for u32: the set of results of n.to_rgb::<U>() *)
u32_to_rgb(n, U) == Rgb_to_rgb(Rgb("u8", Byte(n, 2), Byte(n, 1), Byte(n, 0)), U)

(* variant: the packed value is unpacked and converted *)
u32_to_hsv_unpacked(n) == Rgb_to_hsv(Rgb("u8", Byte(n, 2), Byte(n, 1), Byte(n, 0)))

(* impl ToHsv for u32 *)
u32_to_hsv(n) == Fail("Not yet implemented")

(* impl ToHsv for u64 *)
u64_to_hsv(n) == Fail("Not yet implemented")

(* the outcome of an integer operation with the exact result x: x where it *)
(* is in the range of the type; out of it the overflow failure of a build  *)
(* with overflow checks and the wrapped value of a build without           *)
int_result(enc, x, checked) ==
    IF 0 <= x /\ x <= IntMax(enc) THEN Chan(enc, x)
    ELSE IF checked THEN Fail("arithmetic overflow")
    ELSE Chan(enc, x % (IntMax(enc) + 1))

(* the operators *, /, + and - of the channel type itself *)
raw_mul(enc, a, b, checked) ==
    IF IsFloat(enc) THEN Chan(enc, FMul(a, b, Digits(enc)))
    ELSE int_result(enc, a * b, checked)

raw_div(enc, a, b) ==
    IF IsFloat(enc) THEN Chan(enc, FDiv(a, b, Digits(enc)))
    ELSE IF b = 0 THEN Fail("attempt to divide by zero")
    ELSE Chan(enc, a \div b)

raw_add(enc, a, b, checked) ==
    IF IsFloat(enc) THEN Chan(enc, FAdd(a, b, Digits(enc)))
    ELSE int_result(enc, a + b, checked)

raw_sub(enc, a, b, checked) ==
    IF IsFloat(enc) THEN Chan(enc, FSub(a, b, Digits(enc)))
    ELSE int_result(enc, a - b, checked)

(* Rgb::new(r, g, b) of three component computations, evaluated in order:  *)
(* the first failure is the outcome of the call                            *)
Rgb_new(enc, r, g, b) ==
    IF IsFail(r) THEN r
    ELSE IF IsFail(g) THEN g
    ELSE IF IsFail(b) THEN b
    ELSE Rgb(enc, r.v, g.v, b.v)

Builds == BOOLEAN

(* Channel::saturate of a float channel: the value clamped to [0,1] *)
saturate(x, enc) == clamp(Chan(enc, x), Chan(enc, zero), Chan(enc, one)).v

(* variant: the product of each float component is clamped to [0,1] *)
Rgb_mul_scalar_clamped(c, k) ==
    IF IsFloat(c.enc)
    THEN {Rgb(c.enc, saturate(FMul(c.r, k, Digits(c.enc)), c.enc),
                     saturate(FMul(c.g, k, Digits(c.enc)), c.enc),
                     saturate(FMul(c.b, k, Digits(c.enc)), c.enc))}
    ELSE {Rgb_new(c.enc, raw_mul(c.enc, c.r, k, ch), raw_mul(c.enc, c.g, k, ch),
                         raw_mul(c.enc, c.b, k, ch)) : ch \in Builds}

(* impl Mul<T> for Rgb: the set of outcomes of c * k *)
Rgb_mul_scalar(c, k) ==
    {Rgb_new(c.enc, raw_mul(c.enc, c.r, k, ch), raw_mul(c.enc, c.g, k, ch),
                    raw_mul(c.enc, c.b, k, ch)) : ch \in Builds}

(* impl Div<T> for Rgb: the outcome of c / k *)
Rgb_div_scalar(c, k) ==
    Rgb_new(c.enc, raw_div(c.enc, c.r, k), raw_div(c.enc, c.g, k), raw_div(c.enc, c.b, k))

(* impl Add for Rgb: the set of outcomes of c + rhs *)
Rgb_add(c, rhs) ==
    {Rgb_new(c.enc, raw_add(c.enc, c.r, rhs.r, ch), raw_add(c.enc, c.g, rhs.g, ch),
                    raw_add(c.enc, c.b, rhs.b, ch)) : ch \in Builds}

(* impl Sub for Rgb: the set of outcomes of c - rhs *)
Rgb_sub(c, rhs) ==
    {Rgb_new(c.enc, raw_sub(c.enc, c.r, rhs.r, ch), raw_sub(c.enc, c.g, rhs.g, ch),
                    raw_sub(c.enc, c.b, rhs.b, ch)) : ch \in Builds}

(* impl FloatColor for Rgb: saturate *)
Rgb_saturate(c) ==
    Rgb(c.enc, saturate(c.r, c.enc), saturate(c.g, c.enc), saturate(c.b, c.enc))

----------------------------------------------------------------------------
(* Input values *)

EdgeBytes == {0, 1, 51, 102, 127, 128, 170, 254, 255}

U8Inputs == {Chan("u8", v) : v \in 0..U8_MAX}

U16Inputs == {Chan("u16", hi * 256 + lo) : hi \in EdgeBytes, lo \in EdgeBytes}

(* multiples of 2^-GridBits in [0,1] *)
GridFloats == {F(k, -GridBits) : k \in 0..(2^GridBits)}

(* floats of [0,1] next to a rounding boundary: 2^-25 and 2^-24, the f32    *)
(* below 1.0, the f32 values nearest 0.6 and 1/255, and 1/3 cut to 12 bits *)
EdgeFloats == {F(1, -25), F(1, -24), F(16777215, -24), F(5033165, -23),
               F(65793, -24), F(1365, -12)}

F32Inputs == {Chan("f32", x) : x \in GridFloats \cup EdgeFloats}

(* the f64 inputs have short significands, so that their f64 products are *)
(* exact within TLC's integers                                             *)
F64Inputs == {Chan("f64", x) : x \in GridFloats \cup {F(1, -25), F(1365, -12)}}

ChannelInputs == U8Inputs \cup U16Inputs \cup F32Inputs \cup F64Inputs

(* the bounds clamp is called with, per encoding *)
ClampBounds(enc) ==
    CASE enc = "u8"  -> {Chan("u8", 51), Chan("u8", 170)}
      [] enc = "u16" -> {Chan("u16", 13107), Chan("u16", 43690)}
      [] enc = "f32" -> {Chan("f32", F(1, -2)), Chan("f32", F(3, -2))}
      [] enc = "f64" -> {Chan("f64", F(1, -2)), Chan("f64", F(3, -2))}

(* the quotient v / d has a significand of fewer than 30 bits *)
DivInModel(v, d) == DivBits(v \div d, v % d, d, 0, 28).r = 0

----------------------------------------------------------------------------
(* The state: trace is the sequence of channel values computed so far,     *)
(* trace[1] the input; hist[i] is the call that made trace[i+1] of trace[i] *)

Cur == trace[Len(trace)]

Step(op, args) == [op |-> op, args |-> args]

Apply(op, args, r) ==
    /\ Len(hist) < MaxOps
    /\ trace' = Append(trace, r)
    /\ hist' = Append(hist, Step(op, args))

Init ==
    /\ trace \in {<<c>> : c \in ChannelInputs}
    /\ hist = <<>>

ToChannelU8 == \E r \in to_channel_u8(Cur) : Apply("to_channel_u8", <<>>, r)

ToChannelU16 == \E r \in to_channel_u16(Cur) : Apply("to_channel_u16", <<>>, r)

ToChannelF32 == Apply("to_channel_f32", <<>>, to_channel_f32(Cur))

(* u8 -> f64 is taken where the quotient v / 255 is exact (0x00 and 0xFF): *)
(* its 53-bit significand is otherwise beyond TLC's integers               *)
ToChannelF64 ==
    /\ Cur.enc = "u8" => DivInModel(Cur.v, U8_MAX)
    /\ Apply("to_channel_f64", <<>>, to_channel_f64(Cur))

(* an f64 is inverted where 1 - x is exact within TLC's integers *)
InvertChannel ==
    /\ Cur.enc = "f64" => AddFits(one, Cur.v)
    /\ Apply("invert_channel", <<>>, invert_channel(Cur))

Clamp ==
    \E lo \in ClampBounds(Cur.enc), hi \in ClampBounds(Cur.enc) :
        Apply("clamp", <<lo, hi>>, clamp(Cur, lo, hi))

Next ==
    \/ ToChannelU8
    \/ ToChannelU16
    \/ ToChannelF32
    \/ ToChannelF64
    \/ InvertChannel
    \/ Clamp

Spec == Init /\ [][Next]_vars

----------------------------------------------------------------------------
(* Hues: Hsv values under inverse and normalize *)

HueSteps == 54

(* multiples of 15 degrees on both sides of zero, and hues off that grid:  *)
(* sixteenths next to 0 and 360, and 2^-20 on either side of zero          *)
HueInputs ==
    {F(15 * k, 0) : k \in (-HueSteps)..HueSteps}
        \cup {F(1, -4), F(-1, -4), F(5759, -4), F(-5761, -4), F(5761, -4),
              F(-25, 4), F(1451, -1), F(1, -20), F(-1, -20)}

UnitInputs == {F(0, 0), F(1, -2), F(1, 0)}

HsvInputs ==
    {Hsv(enc, h, s, v) : enc \in {"f32", "f64"}, h \in HueInputs,
                         s \in UnitInputs, v \in UnitInputs}

InitHsv ==
    /\ trace \in {<<c>> : c \in HsvInputs}
    /\ hist = <<>>

HsvInverse == Apply("inverse", <<>>, Hsv_inverse(Cur))

HsvNormalize == Apply("normalize", <<>>, Hsv_normalize(Cur))

NextHsv ==
    \/ HsvInverse
    \/ HsvNormalize

SpecHsv == InitHsv /\ [][NextHsv]_vars

----------------------------------------------------------------------------
(* Conversions between Rgb and Hsv *)

ByteSamples == {0, 1, 51, 100, 128, 153, 200, 254, 255}

(* 8-bit colors: every combination of the sample bytes, every gray and     *)
(* every pure primary                                                      *)
RgbU8Inputs ==
    {Rgb("u8", r, g, b) : r \in ByteSamples, g \in ByteSamples, b \in ByteSamples}
        \cup {Rgb("u8", x, x, x) : x \in 0..U8_MAX}
        \cup {Rgb("u8", x, 0, 0) : x \in 0..U8_MAX}
        \cup {Rgb("u8", 0, x, 0) : x \in 0..U8_MAX}
        \cup {Rgb("u8", 0, 0, x) : x \in 0..U8_MAX}

WordSamples == {0, 32896, U16_MAX}

RgbU16Inputs ==
    {Rgb("u16", r, g, b) : r \in WordSamples, g \in WordSamples, b \in WordSamples}

(* 0, 1/4, the f32 nearest 0.6, and 1 *)
UnitSamples == {zero, F(1, -2), F(5033165, -23), one}

RgbF32Inputs ==
    {Rgb("f32", r, g, b) : r \in UnitSamples, g \in UnitSamples, b \in UnitSamples}

(* hues inside [0,360) in every sector, on the sector borders, and outside *)
HueSamples ==
    {F(h, 0) : h \in {0, 30, 60, 90, 120, 150, 180, 210, 240, 270, 300, 330}}
        \cup {F(5759, -4), F(11796479, -15), F(1, -4), F(360, 0), F(720, 0),
              F(-30, 0), F(-1, -4), F(-400, 0)}

(* <<s, v>> with v * s and v - v * s both rounded: the f32 nearest 0.35    *)
(* and 0.8, and the f32 nearest 0.1 and 0.95                               *)
RoundedSamples ==
    {<<F(11744051, -25), F(13421773, -24)>>, <<F(13421773, -27), F(15938355, -24)>>}

HsvF32Inputs ==
    {Hsv("f32", h, s, v) : h \in HueSamples, s \in UnitSamples, v \in UnitSamples}
        \cup {Hsv("f32", F(h, 0), sv[1], sv[2]) : h \in {30, 150, 270}, sv \in RoundedSamples}

IsRgb(c) == "r" \in DOMAIN c

IsHsv(c) == "h" \in DOMAIN c

InitConv ==
    /\ trace \in {<<c>> : c \in RgbU8Inputs \cup RgbU16Inputs \cup RgbF32Inputs
                                         \cup HsvF32Inputs}
    /\ hist = <<>>

(* every component of a float color lies in [0,1] *)
InGamut(c) ==
    \A x \in {c.r, c.g, c.b} : ~FLt(x, zero) /\ ~FLt(one, x)

(* to_hsv is taken on colors whose components are channel values, in [0,1] *)
(* for a float encoding (to_rgb::<f32> of a negative hue is not one)       *)
RgbToHsv ==
    /\ IsRgb(Cur)
    /\ IsFloat(Cur.enc) => InGamut(Cur)
    /\ Apply("to_hsv", <<"f32">>, Rgb_to_hsv(Cur))

(* to_rgb::<u16> is taken where no cast is out of range: an out-of-range   *)
(* cast has 65536 possible results for each component; to_rgb::<u8> is     *)
(* taken everywhere                                                        *)
HsvToRgb ==
    /\ Len(hist) < MaxOps
    /\ IsHsv(Cur)
    /\ \E U \in {"u8", "u16", "f32"} :
           /\ U = "u16" => InGamut(Hsv_rgb_f32(Cur))
           /\ \E r \in Hsv_to_rgb(Cur, U) : Apply("to_rgb", <<U>>, r)

NextConv ==
    \/ RgbToHsv
    \/ HsvToRgb

SpecConv == InitConv /\ [][NextConv]_vars

----------------------------------------------------------------------------
(* The color algebra *)

(* 8-bit colors: the combinations of three sample bytes *)
AlgU8Inputs ==
    {Rgb("u8", r, g, b) : r \in {0, 20, 254}, g \in {0, 20, 254}, b \in {0, 20, 254}}

(* 8-bit colors: every gray as well *)
ArithInputs == AlgU8Inputs \cup {Rgb("u8", x, x, x) : x \in 0..U8_MAX}

(* 0, 2^-25, 1/4, the f32 nearest 0.6, and 1 *)
AlgFloats == {zero, F(1, -25), F(1, -2), F(5033165, -23), one}

AlgF32Inputs ==
    {Rgb("f32", r, g, b) : r \in {zero, one}, g \in AlgFloats, b \in {F(1, -2)}}

AlgAlphaU8Inputs == {AlphaColor(Rgb("u8", 20, 0, 254), a) : a \in {0, 127, 255}}

AlgAlphaF32Inputs == {AlphaColor(Rgb("f32", one, F(1, -2), zero), a) : a \in {zero, one}}

IsAlpha(x) == "a" \in DOMAIN x

IsColor(x) == IsRgb(x) \/ IsAlpha(x)

EncOf(x) == IF IsAlpha(x) THEN x.c.enc ELSE x.enc

InitAlg ==
    /\ \/ \E x \in AlgU8Inputs \cup AlgF32Inputs : trace = <<x>>
       \/ \E x \in AlgAlphaU8Inputs : trace = <<x>>
       \/ \E x \in AlgAlphaF32Inputs : trace = <<x>>
    /\ hist = <<>>

(* the right-hand operands of the saturating operations *)
AddOperands == {Rgb("u8", 20, 20, 20), Rgb("u8", 1, 0, 255)}

SubOperands == {Rgb("u8", 50, 50, 50), Rgb("u8", 1, 0, 255)}

(* variant: the sum is also assigned to the left-hand color *)
SaturatingAdd_assign ==
    /\ Len(hist) < MaxOps
    /\ IsRgb(Cur) /\ Cur.enc = "u8"
    /\ \E v \in AddOperands :
           /\ trace' = Append([trace EXCEPT ![Len(trace)] = Rgb_saturating_add(Cur, v)],
                              Rgb_saturating_add(Cur, v))
           /\ hist' = Append(hist, Step("saturating_add", <<v>>))

SaturatingAdd ==
    /\ IsRgb(Cur) /\ Cur.enc = "u8"
    /\ \E v \in AddOperands :
           Apply("saturating_add", <<v>>, Rgb_saturating_add(Cur, v))

SaturatingSub ==
    /\ IsRgb(Cur) /\ Cur.enc = "u8"
    /\ \E v \in SubOperands :
           Apply("saturating_sub", <<v>>, Rgb_saturating_sub(Cur, v))

MulOperands == {Rgb("u8", 255, 255, 255), Rgb("u8", 128, 0, 255)}

Mul ==
    /\ Len(hist) < MaxOps
    /\ IsRgb(Cur) /\ Cur.enc = "u8"
    /\ \E rhs \in MulOperands :
           \E r \in Rgb_mul(Cur, rhs) : Apply("mul", <<rhs>>, r)

(* the divisors have no zero component; a quotient above 1 is re-encoded   *)
(* by an out-of-range cast                                                 *)
DivOperands == {Rgb("u8", 255, 255, 255), Rgb("u8", 254, 255, 255)}

Div ==
    /\ Len(hist) < MaxOps
    /\ IsRgb(Cur) /\ Cur.enc = "u8"
    /\ \E rhs \in DivOperands :
           \E r \in Rgb_div(Cur, rhs) : Apply("div", <<rhs>>, r)

(* the colors mixed in, of the kind and encoding of x *)
MixOperands(x) ==
    LET others == IF EncOf(x) = "u8"
                  THEN {Rgb("u8", 0, 255, 20), Rgb("u8", 127, 127, 127)}
                  ELSE {Rgb("f32", F(1, -25), one, F(1, -2)),
                        Rgb("f32", F(5033165, -23), zero, one)}
    IN  IF IsAlpha(x)
        THEN {AlphaColor(c, a) : c \in others,
                                  a \in IF EncOf(x) = "u8" THEN {0, U8_MAX} ELSE {zero, one}}
        ELSE others

(* the boundary values of t and one value between them *)
MixValues(enc) == IF enc = "u8" THEN {0, 128, U8_MAX} ELSE {zero, F(1, -2), one}

Mix ==
    /\ Len(hist) < MaxOps
    /\ IsColor(Cur)
    /\ \E other \in MixOperands(Cur) :
           \E t \in MixValues(EncOf(Cur)) :
               Apply("mix", <<other, t>>,
                     IF IsAlpha(Cur) THEN AlphaColor_mix(Cur, other, t)
                     ELSE Rgb_mix(Cur, other, t))

(* the value stored through a mutable reference *)
StoreValues(enc) == IF enc = "u8" THEN {7} ELSE {F(1, -1)}

(* c[i] = v: index_mut hands out a mutable reference to component i of the *)
(* color, and the store through it changes the color in place; the result  *)
(* of the step is the component referred to                                *)
IndexMut ==
    /\ Len(hist) < MaxOps
    /\ IsColor(Cur)
    /\ \E i \in 0..(Len(as_ref(Cur)) - 1) :
           \E v \in StoreValues(EncOf(Cur)) :
               /\ trace' = Append([trace EXCEPT ![Len(trace)] = stored(Cur, i, v)],
                                  Chan(EncOf(Cur), v))
               /\ hist' = Append(hist, Step("index_mut", <<i, v>>))

(* c.as_mut()[i] = v: as_mut hands out the components as a mutable slice;  *)
(* the result of the step is the slice                                     *)
AsMut ==
    /\ Len(hist) < MaxOps
    /\ IsColor(Cur)
    /\ \E i \in 0..(Len(as_ref(Cur)) - 1) :
           \E v \in StoreValues(EncOf(Cur)) :
               /\ trace' = Append([trace EXCEPT ![Len(trace)] = stored(Cur, i, v)],
                                  [slice |-> as_ref(stored(Cur, i, v))])
               /\ hist' = Append(hist, Step("as_mut", <<i, v>>))

NextAlg ==
    \/ SaturatingAdd
    \/ SaturatingSub
    \/ Mul
    \/ Div
    \/ Mix
    \/ IndexMut
    \/ AsMut

SpecAlg == InitAlg /\ [][NextAlg]_vars

(* the arithmetic of 8-bit colors, on every gray *)
InitArith ==
    /\ trace \in {<<c>> : c \in ArithInputs}
    /\ hist = <<>>

NextArith ==
    \/ SaturatingAdd
    \/ SaturatingSub
    \/ Mul
    \/ Div

SpecArith == InitArith /\ [][NextArith]_vars

----------------------------------------------------------------------------
(* The operators with a scalar, the sum and difference, and the packed     *)
(* integer colors                                                          *)

(* 0x000000, 0x336699, 0xFFFFFF, 0x7F996633 *)
PackedInputs ==
    {Packed(32, n) : n \in {0, 3368601, 16777215, 2140759603}}
        \cup {Packed(64, n) : n \in {0, 3368601}}

OpsU8Inputs ==
    {Rgb("u8", r, g, b) : r \in {0, 20, 200}, g \in {0, 20, 200}, b \in {0, 20, 200}}

OpsFloats == {zero, F(5033165, -23), one}

OpsF32Inputs ==
    {Rgb("f32", r, g, b) : r \in OpsFloats, g \in OpsFloats, b \in OpsFloats}

IsPacked(x) == "bits" \in DOMAIN x

InitOps ==
    /\ \/ \E x \in PackedInputs : trace = <<x>>
       \/ \E x \in OpsU8Inputs \cup OpsF32Inputs : trace = <<x>>
    /\ hist = <<>>

PackedToRgb ==
    /\ Len(hist) < MaxOps
    /\ IsPacked(Cur) /\ Cur.bits = 32
    /\ \E U \in {"u8", "u16", "f32"} :
           \E r \in u32_to_rgb(Cur.n, U) : Apply("to_rgb", <<U>>, r)

PackedToHsv ==
    /\ IsPacked(Cur)
    /\ Apply("to_hsv", <<"f32">>,
             IF Cur.bits = 32 THEN u32_to_hsv(Cur.n) ELSE u64_to_hsv(Cur.n))

(* the scalars: for the float encodings none is zero (a float quotient by  *)
(* zero is an infinity or a NaN)                                           *)
Scalars(enc) == IF enc = "u8" THEN {0, 2, 3} ELSE {F(1, 1), F(1, -2), F(5033165, -23)}

MulScalar ==
    /\ Len(hist) < MaxOps
    /\ IsRgb(Cur) /\ Cur.enc \in {"u8", "f32"}
    /\ \E k \in Scalars(Cur.enc) :
           \E r \in Rgb_mul_scalar(Cur, k) : Apply("mul_scalar", <<k>>, r)

DivScalar ==
    /\ Len(hist) < MaxOps
    /\ IsRgb(Cur) /\ Cur.enc \in {"u8", "f32"}
    /\ \E k \in Scalars(Cur.enc) : Apply("div_scalar", <<k>>, Rgb_div_scalar(Cur, k))

(* the right-hand colors of + and - *)
OpsOperands(enc) ==
    IF enc = "u8" THEN {Rgb("u8", 20, 20, 20), Rgb("u8", 100, 0, 255)}
    ELSE {Rgb("f32", F(1, -2), F(1, -2), F(1, -2)), Rgb("f32", one, zero, F(5033165, -23))}

Add ==
    /\ Len(hist) < MaxOps
    /\ IsRgb(Cur) /\ Cur.enc \in {"u8", "f32"}
    /\ \E rhs \in OpsOperands(Cur.enc) :
           \E r \in Rgb_add(Cur, rhs) : Apply("add", <<rhs>>, r)

Sub ==
    /\ Len(hist) < MaxOps
    /\ IsRgb(Cur) /\ Cur.enc \in {"u8", "f32"}
    /\ \E rhs \in OpsOperands(Cur.enc) :
           \E r \in Rgb_sub(Cur, rhs) : Apply("sub", <<rhs>>, r)

Saturate ==
    /\ IsRgb(Cur) /\ Cur.enc = "f32"
    /\ Apply("saturate", <<>>, Rgb_saturate(Cur))

NextOps ==
    \/ PackedToRgb
    \/ PackedToHsv
    \/ MulScalar
    \/ DivScalar
    \/ Add
    \/ Sub
    \/ Saturate
    \/ Mul

SpecOps == InitOps /\ [][NextOps]_vars

----------------------------------------------------------------------------
(* Colors with an alpha channel under clamp_s, clamp_c, inverse and mix *)

AlphaU8Inputs ==
    {AlphaColor(Rgb("u8", r, 128, b), a) : r \in {0, 20}, b \in {254, 255},
                                           a \in {0, 127, 255}}

AlphaF32Inputs ==
    {AlphaColor(Rgb("f32", r, F(1, -2), b), a) : r \in {zero, F(5033165, -23)},
                                                 b \in {F(1, -25), one},
                                                 a \in {zero, F(1, -2), one}}

InitAlpha ==
    /\ \/ \E x \in AlphaU8Inputs : trace = <<x>> \/ trace = <<x.c>>
       \/ \E x \in AlphaF32Inputs : trace = <<x>> \/ trace = <<x.c>>
    /\ hist = <<>>

(* the scalar bounds <<lo, hi>>, one pair with lo > hi *)
ScalarBounds(enc) ==
    IF enc = "u8" THEN {<<10, 200>>, <<200, 10>>}
    ELSE {<<F(1, -2), F(5033165, -23)>>, <<one, zero>>}

(* the bounds <<lo, hi>> of the kind and encoding of x *)
ColorBounds(x) ==
    LET lo == IF EncOf(x) = "u8" THEN Rgb("u8", 10, 130, 0)
              ELSE Rgb("f32", F(1, -2), zero, zero)
        hi == IF EncOf(x) = "u8" THEN Rgb("u8", 15, 200, 254)
              ELSE Rgb("f32", one, F(1, -3), F(1, -2))
    IN  IF IsAlpha(x)
        THEN IF EncOf(x) = "u8"
             THEN {<<AlphaColor(lo, 100), AlphaColor(hi, 200)>>}
             ELSE {<<AlphaColor(lo, F(1, -2)), AlphaColor(hi, F(3, -2))>>}
        ELSE {<<lo, hi>>}

ClampS ==
    /\ Len(hist) < MaxOps
    /\ IsColor(Cur)
    /\ \E b \in ScalarBounds(EncOf(Cur)) :
           Apply("clamp_s", b,
                 IF IsAlpha(Cur) THEN AlphaColor_clamp_s(Cur, b[1], b[2])
                 ELSE Rgb_clamp_s(Cur, b[1], b[2]))

ClampC ==
    /\ Len(hist) < MaxOps
    /\ IsColor(Cur)
    /\ \E b \in ColorBounds(Cur) :
           Apply("clamp_c", b,
                 IF IsAlpha(Cur) THEN AlphaColor_clamp_c(Cur, b[1], b[2])
                 ELSE Rgb_clamp_c(Cur, b[1], b[2]))

Inverse ==
    /\ IsColor(Cur)
    /\ Apply("inverse", <<>>,
             IF IsAlpha(Cur) THEN AlphaColor_inverse(Cur) ELSE Rgb_inverse(Cur))

NextAlpha ==
    \/ ClampS
    \/ ClampC
    \/ Inverse
    \/ Mix

SpecAlpha == InitAlpha /\ [][NextAlpha]_vars

----------------------------------------------------------------------------
(* Properties of the channel conversions (specification Spec) *)

Calls == 1..Len(hist)

Called(i, op, enc) == hist[i].op = op /\ trace[i].enc = enc

(* C1: for every u8 value v, to_channel_u16(v) is the byte replicated into *)
(* both halves, v * 257 = (v << 8) | v, and not the shifted value v << 8.   *)
C1_ByteReplicated ==
    \A i \in Calls :
        Called(i, "to_channel_u16", "u8") =>
            /\ trace[i + 1] = Chan("u16", 257 * trace[i].v)
            /\ trace[i + 1].v \div 256 = trace[i].v
            /\ trace[i + 1].v % 256 = trace[i].v

C1_Witness ==
    \E i \in Calls :
        /\ Called(i, "to_channel_u16", "u8")
        /\ trace[i].v = 160
        /\ trace[i + 1].v = 41120

(* C2: for every u8 value v, to_channel_u16 followed by to_channel_u8      *)
(* returns exactly v.                                                      *)
C2_U8RoundTrip ==
    \A i \in Calls :
        (/\ i < Len(hist)
         /\ Called(i, "to_channel_u16", "u8")
         /\ Called(i + 1, "to_channel_u8", "u16")) => trace[i + 2] = trace[i]

C2_Witness ==
    /\ Len(hist) = 2
    /\ Called(1, "to_channel_u16", "u8")
    /\ Called(2, "to_channel_u8", "u16")
    /\ trace[1].v = 200
    /\ trace[3].v = 200

(* C3: for every u16 value v, to_channel_u8(v) is the high byte v >> 8,    *)
(* never rounded up; converting that byte back with to_channel_u16 gives   *)
(* the high byte in both halves, which is v only when v's low byte equals  *)
(* its high byte.                                                          *)
C3_HighByteTruncation ==
    \A i \in Calls :
        Called(i, "to_channel_u8", "u16") =>
            LET v == trace[i].v
                r == trace[i + 1].v
            IN  /\ trace[i + 1].enc = "u8"
                /\ 256 * r <= v /\ v < 256 * (r + 1)
                /\ (i < Len(hist) /\ hist[i + 1].op = "to_channel_u16") =>
                       /\ trace[i + 2] = Chan("u16", 256 * r + r)
                       /\ (trace[i + 2] = trace[i]) <=> (v % 256 = v \div 256)

C3_Witness ==
    /\ Len(hist) = 2
    /\ Called(1, "to_channel_u8", "u16")
    /\ hist[2].op = "to_channel_u16"
    /\ trace[1].v = 13311
    /\ trace[2].v = 51
    /\ trace[3].v = 13107

FLe(a, b) == ~FLt(b, a)

InUnit(x) == FLe(zero, x) /\ FLe(x, one)

MaxOf(enc) == CASE enc = "u8" -> U8_MAX [] enc = "u16" -> U16_MAX [] OTHER -> one

MinOf(enc) == IF IsFloat(enc) THEN zero ELSE 0

Conversions == {"to_channel_u8", "to_channel_u16", "to_channel_f32", "to_channel_f64"}

(* C4: for every u16 value v, to_channel_f32(v) and to_channel_f64(v) are  *)
(* the quotient v / 65535, so every v with 0 < v < 65535 converts to a     *)
(* value strictly between 0 and 1.                                         *)
C4_U16ToFloatQuotient ==
    \A i \in Calls :
        (Called(i, "to_channel_f32", "u16") \/ Called(i, "to_channel_f64", "u16")) =>
            LET v == trace[i].v
                r == trace[i + 1].v
            IN  /\ v = 0 <=> r = zero
                /\ v = U16_MAX <=> r = one
                /\ (0 < v /\ v < U16_MAX) => (FLt(zero, r) /\ FLt(r, one))

(* C5: for every float f in [0,1], to_channel_u8(f) is the integer part of *)
(* the product f * 255 and to_channel_u16(f) that of f * 65535: the cast   *)
(* truncates and never rounds to nearest (0.25 -> 0x3F / 0x3FFF, 0.5 ->    *)
(* 0x7F / 0x7FFF, 0.75 -> 0xBF / 0xBFFF, 1.0 -> 0xFF / 0xFFFF).            *)
C5_FloatToIntTruncates ==
    \A i \in Calls :
        (/\ hist[i].op \in {"to_channel_u8", "to_channel_u16"}
         /\ IsFloat(trace[i].enc)
         /\ InUnit(trace[i].v)) =>
            LET f    == trace[i].v
                n    == trace[i + 1].v
                max  == MaxOf(trace[i + 1].enc)
                prod == FMul(f, FromInt(max), Digits(trace[i].enc))
            IN  /\ 0 <= n /\ n <= max
                /\ FLe(FromInt(n), prod) /\ FLt(prod, FromInt(n + 1))
                /\ f = F(1, -2) => n = (max - 3) \div 4
                /\ f = F(1, -1) => n = (max - 1) \div 2
                /\ f = F(3, -2) => n = (3 * max - 1) \div 4
                /\ f = one => n = max

C5_Witness ==
    \E i \in Calls :
        /\ Called(i, "to_channel_u8", "f32")
        /\ trace[i].v = F(3, -2)
        /\ trace[i + 1].v = 191

(* C6: every conversion between u8, u16, f32 and f64 maps the minimum of   *)
(* the source encoding (0x00, 0x0000, 0.0) to the minimum of the target    *)
(* and the maximum (0xFF, 0xFFFF, 1.0) to the maximum of the target.       *)
C6_BoundariesPreserved ==
    \A i \in Calls :
        hist[i].op \in Conversions =>
            /\ trace[i].v = MinOf(trace[i].enc) => trace[i + 1].v = MinOf(trace[i + 1].enc)
            /\ trace[i].v = MaxOf(trace[i].enc) => trace[i + 1].v = MaxOf(trace[i + 1].enc)

C6_Witness ==
    /\ Len(hist) = 2
    /\ trace[1] = Chan("u8", U8_MAX)
    /\ trace[2] = Chan("u16", U16_MAX)
    /\ trace[3] = Chan("f32", one)

TwoInverts(i) ==
    /\ i < Len(hist)
    /\ hist[i].op = "invert_channel"
    /\ hist[i + 1].op = "invert_channel"

(* C7 as stated: in every encoding, invert_channel(invert_channel(v)) = v. *)
C7_InvertInvolution ==
    \A i \in Calls : TwoInverts(i) => trace[i + 2] = trace[i]

(* C7 as amended: invert_channel is the complement max - v for u8 and u16  *)
(* and an involution there; for a float v of [0,1] it is 1 - v rounded to  *)
(* the format, and invert_channel(invert_channel(v)) = v exactly when v is *)
(* a multiple of 2^-24 (f32) or 2^-53 (f64), that is, when 1 - v is exact. *)
C7_InvertInvolutionWhereExact ==
    \A i \in Calls :
        hist[i].op = "invert_channel" =>
            LET c == trace[i]
            IN  IF IsFloat(c.enc)
                THEN (TwoInverts(i) /\ InUnit(c.v)) =>
                         ((trace[i + 2] = c) <=> (c.v.m = 0 \/ c.v.e >= -Digits(c.enc)))
                ELSE /\ trace[i + 1] = Chan(c.enc, MaxOf(c.enc) - c.v)
                     /\ TwoInverts(i) => trace[i + 2] = c

C7_Witness ==
    /\ TwoInverts(1)
    /\ trace[1] = Chan("f32", F(1, -24))
    /\ trace[2] = Chan("f32", F(16777215, -24))
    /\ trace[3] = trace[1]

(* C8: for bounds lo <= hi, clamp(v, lo, hi) is lo when v < lo, hi when    *)
(* v > hi and v otherwise, so lo <= result <= hi; for any bounds, lo > hi  *)
(* included, clamp returns one of v, lo and hi.                            *)
C8_Clamp ==
    \A i \in Calls :
        hist[i].op = "clamp" =>
            LET v  == trace[i]
                lo == hist[i].args[1]
                hi == hist[i].args[2]
                r  == trace[i + 1]
            IN  /\ r \in {v, lo, hi}
                /\ ~Lt(hi, lo) =>
                      /\ ~Lt(r, lo) /\ ~Lt(hi, r)
                      /\ Lt(v, lo) => r = lo
                      /\ Lt(hi, v) => r = hi
                      /\ (~Lt(v, lo) /\ ~Lt(hi, v)) => r = v

C8_Witness ==
    /\ Len(hist) = 2
    /\ hist[1] = Step("clamp", <<Chan("u8", 51), Chan("u8", 170)>>)
    /\ hist[2] = Step("clamp", <<Chan("u8", 170), Chan("u8", 51)>>)
    /\ trace = <<Chan("u8", 10), Chan("u8", 51), Chan("u8", 170)>>

----------------------------------------------------------------------------
(* Properties of the hue operations (specification SpecHsv) *)

(* a float as an integer count of 2^-20 *)
Scaled(x) == x.m * 2^(x.e + 20)

FullTurn == 360 * 2^20

(* C9: for every hue h >= 0, h >= 360 included, invert_degrees(h) is       *)
(* (h + 180) mod 360 and lies in [0,360): 0 -> 180, 45 -> 225, 90 -> 270,  *)
(* 360 -> 180, 720 -> 180; Hsv::inverse applies it to h and the channel    *)
(* inversion 1 - x to s and v.                                             *)
C9_InvertDegrees ==
    \A i \in Calls :
        hist[i].op = "inverse" =>
            LET c   == trace[i]
                r   == trace[i + 1]
                sum == FAdd(c.h, FromInt(180), Digits(c.enc))
            IN  /\ Scaled(r.s) = 2^20 - Scaled(c.s)
                /\ Scaled(r.v) = 2^20 - Scaled(c.v)
                /\ FLe(zero, c.h) =>
                      /\ 0 <= Scaled(r.h) /\ Scaled(r.h) < FullTurn
                      /\ Scaled(r.h) = Scaled(sum) % FullTurn
                      /\ c.h \in {zero, F(360, 0), F(720, 0)} => r.h = F(180, 0)
                      /\ c.h = F(45, 0) => r.h = F(225, 0)
                      /\ c.h = F(90, 0) => r.h = F(270, 0)

C9_Witness ==
    \E i \in Calls :
        /\ hist[i].op = "inverse"
        /\ trace[i] = Hsv("f32", F(720, 0), F(1, -2), one)
        /\ trace[i + 1] = Hsv("f32", F(180, 0), F(3, -2), zero)

(* C10: for every hue h, negative or not and of any magnitude, h < -360    *)
(* included, normalize_degrees(h) lies in [0,360) and differs from h by a  *)
(* whole number of turns (checked where h is a multiple of 1/16 degree, so *)
(* that no sum is rounded).                                                *)
C10_NormalizeDegrees ==
    \A i \in Calls :
        hist[i].op = "normalize" =>
            LET h == trace[i].h
                r == trace[i + 1].h
            IN  /\ 0 <= Scaled(r) /\ Scaled(r) < FullTurn
                /\ h.e >= -4 => (Scaled(r) - Scaled(h)) % FullTurn = 0

----------------------------------------------------------------------------
(* Properties of the Rgb / Hsv conversions (specification SpecConv) *)

(* the channel value x of an encoding as a fraction of the encoding's      *)
(* maximum, rounded to f32                                                 *)
Level(enc, x) ==
    IF IsFloat(enc) THEN x
    ELSE FDiv(FromInt(x), FromInt(MaxOf(enc)), F32_MANTISSA_DIGITS)

IsGray(c) == c.r = c.g /\ c.g = c.b

(* C11: for every RGB color with r = g = b, at any gray level, to_hsv      *)
(* returns h = 0, s = 0 and v equal to the normalized gray level           *)
(* (RGB(0,0,0) -> HSV(0,0,0), RGB(255,255,255) -> HSV(0,0,1.0)).           *)
C11_Achromatic ==
    \A i \in Calls :
        (hist[i].op = "to_hsv" /\ IsGray(trace[i])) =>
            trace[i + 1] = Hsv("f32", zero, zero, Level(trace[i].enc, trace[i].r))

(* the same for the 8-bit and float encodings only *)
C11_AchromaticU8F32 ==
    \A i \in Calls :
        (hist[i].op = "to_hsv" /\ IsGray(trace[i]) /\ trace[i].enc # "u16") =>
            trace[i + 1] = Hsv("f32", zero, zero, Level(trace[i].enc, trace[i].r))

(* the float components to_hsv works on *)
Components(c) ==
    [k \in {"r", "g", "b"} |-> to_channel_f32(Chan(c.enc, c[k])).v]

MaxComponent(c) ==
    LET x == Components(c)
    IN  CHOOSE m \in {x.r, x.g, x.b} : \A y \in {x.r, x.g, x.b} : FLe(y, m)

MinComponent(c) ==
    LET x == Components(c)
    IN  CHOOSE m \in {x.r, x.g, x.b} : \A y \in {x.r, x.g, x.b} : FLe(m, y)

Chroma(c) == FSub(MaxComponent(c), MinComponent(c), F32_MANTISSA_DIGITS)

(* C12: for every RGB input with non-zero chroma, the hue returned by      *)
(* to_hsv lies in [0,360), the inputs where r is the maximum and g < b     *)
(* included.                                                               *)
C12_HueInRange ==
    \A i \in Calls :
        (hist[i].op = "to_hsv" /\ Chroma(trace[i]) # zero) =>
            /\ FLe(zero, trace[i + 1].h)
            /\ FLt(trace[i + 1].h, FromInt(360))

(* the hue is negative exactly where r is the maximum and g < b *)
C12_NegativeHueWhereRedMax ==
    \A i \in Calls :
        (hist[i].op = "to_hsv" /\ Chroma(trace[i]) # zero) =>
            LET x == Components(trace[i])
            IN  /\ FLt(trace[i + 1].h, zero) <=>
                       (x.r = MaxComponent(trace[i]) /\ FLt(x.g, x.b))
                /\ FLt(FromInt(-60), trace[i + 1].h) \/ trace[i + 1].h = FromInt(-60)
                /\ FLt(trace[i + 1].h, FromInt(360))

(* the last call made is op: every call of a behavior is the last call of  *)
(* one of its states                                                       *)
LastCall(op) == Len(hist) >= 1 /\ hist[Len(hist)].op = op

LastArg == trace[Len(hist)]

LastResult == trace[Len(hist) + 1]

Max3(r, g, b) == IF FLe(g, r) /\ FLe(b, r) THEN r ELSE IF FLe(b, g) THEN g ELSE b

Min3(r, g, b) == IF FLe(r, g) /\ FLe(r, b) THEN r ELSE IF FLe(g, b) THEN g ELSE b

(* the hue of the claim: the first of r, g, b that equals the maximum      *)
(* selects the formula                                                     *)
SectorHue(r, g, b, mx, chr, p) ==
    FMul(FromInt(60),
         IF r = mx THEN FRem(FDiv(FSub(g, b, p), chr, p), FromInt(6))
         ELSE IF g = mx THEN FAdd(FDiv(FSub(b, r, p), chr, p), FromInt(2), p)
         ELSE FAdd(FDiv(FSub(r, g, p), chr, p), FromInt(4), p),
         p)

PrimariesMapped(c, o) ==
    /\ (c.g = 0 /\ c.b = 0) => o = Hsv("f32", zero, one, Level("u8", c.r))
    /\ (c.r = 0 /\ c.b = 0) => o = Hsv("f32", FromInt(120), one, Level("u8", c.g))
    /\ (c.r = 0 /\ c.g = 0) => o = Hsv("f32", FromInt(240), one, Level("u8", c.b))

SectorFormulas(c, o, r, g, b, mx, chr, p) ==
    chr # zero =>
        /\ o.h = SectorHue(r, g, b, mx, chr, p)
        /\ o.s = FDiv(chr, mx, p)
        /\ o.v = mx
        /\ c.enc = "u8" => PrimariesMapped(c, o)

SectorFormulasOf(c, o, r, g, b, mx, mn, p) ==
    SectorFormulas(c, o, r, g, b, mx, FSub(mx, mn, p), p)

SectorFormulasIn(c, o, x, p) ==
    SectorFormulasOf(c, o, x.r, x.g, x.b, Max3(x.r, x.g, x.b), Min3(x.r, x.g, x.b), p)

(* C13: for every RGB input with non-zero chroma, to_hsv picks the sector  *)
(* by the first of r, g, b that equals the maximum, computes               *)
(* h = 60*(((g-b)/chroma) mod 6), 60*((b-r)/chroma + 2) or                 *)
(* 60*((r-g)/chroma + 4), s = chroma/max and v = max, each operation       *)
(* rounded to f32, mod being the remainder with the sign of the dividend,  *)
(* and r, g, b the float components to_hsv works on; the pure 8-bit        *)
(* primaries (x,0,0), (0,x,0), (0,0,x), x > 0, map to hue 0, 120 and 240   *)
(* with s = 1 and v = x/255.                                               *)
C13_SectorFormulas ==
    LastCall("to_hsv") =>
        SectorFormulasIn(LastArg, LastResult, Components(LastArg), F32_MANTISSA_DIGITS)

(* RGB(0x00,0x99,0x00) -> HSV(120, 1.0, 0.6) *)
C13_Witness ==
    /\ Len(hist) >= 1
    /\ hist[1].op = "to_hsv"
    /\ trace[1] = Rgb("u8", 0, 153, 0)
    /\ trace[2] = Hsv("f32", FromInt(120), one, F(5033165, -23))

(* the triple of the sector table for floor(h') = k *)
SectorTriple(k, chr, x) ==
    CASE k = 0 -> <<chr, x, zero>>
      [] k = 1 -> <<x, chr, zero>>
      [] k = 2 -> <<zero, chr, x>>
      [] k = 3 -> <<zero, x, chr>>
      [] k = 4 -> <<x, zero, chr>>
      [] k = 5 -> <<chr, zero, x>>

InTurn(h) == FLe(zero, h) /\ FLt(h, FromInt(360))

LiteralsMapped(c, o) ==
    /\ c = Hsv("f32", zero, one, F(5033165, -23)) => o = Rgb("u8", 153, 0, 0)
    /\ c = Hsv("f32", FromInt(120), one, F(5033165, -23)) => o = Rgb("u8", 0, 153, 0)
    /\ c = Hsv("f32", FromInt(240), one, F(5033165, -23)) => o = Rgb("u8", 0, 0, 153)
    /\ c = Hsv("f32", zero, zero, one) => o = Rgb("u8", 255, 255, 255)

TableRow(c, o, U, k, t, m, p) ==
    /\ k \in 0..5
    /\ o \in Rgb_to_rgb(Rgb("f32", FAdd(t[1], m, p), FAdd(t[2], m, p), FAdd(t[3], m, p)), U)
    /\ U = "u8" => LiteralsMapped(c, o)

SectorTable(c, o, U, chr, h1, p) ==
    TableRow(c, o, U, Trunc(h1),
             SectorTriple(Trunc(h1), chr,
                 FMul(chr, FSub(one, FAbs(FSub(FRem(h1, FromInt(2)), one, p)), p), p)),
             FSub(c.v, chr, p), p)

(* C14: for every HSV value with h in [0,360), to_rgb computes             *)
(* chroma = v*s, h' = h/60, x = chroma*(1 - |(h' mod 2) - 1|),             *)
(* m = v - chroma, each rounded to f32, and returns the triple the table   *)
(* gives for floor(h') with m added to each component, re-encoded to the   *)
(* target channel type (HSV(0,1,0.6) -> RGB(0x99,0,0), HSV(120,1,0.6) ->   *)
(* RGB(0,0x99,0), HSV(240,1,0.6) -> RGB(0,0,0x99), HSV(0,0,1) ->           *)
(* RGB(0xFF,0xFF,0xFF)).                                                   *)
C14_SectorTable ==
    (LastCall("to_rgb") /\ InTurn(LastArg.h)) =>
        SectorTable(LastArg, LastResult, hist[Len(hist)].args[1],
                    FMul(LastArg.v, LastArg.s, F32_MANTISSA_DIGITS),
                    FDiv(LastArg.h, FromInt(60), F32_MANTISSA_DIGITS),
                    F32_MANTISSA_DIGITS)

(* HSV(240, 1.0, 0.6) -> RGB(0x00,0x00,0x99) *)
C14_Witness ==
    /\ Len(hist) >= 1
    /\ hist[1] = [op |-> "to_rgb", args |-> <<"u8">>]
    /\ trace[1] = Hsv("f32", FromInt(240), one, F(5033165, -23))
    /\ trace[2] = Rgb("u8", 0, 0, 153)

(* to_hsv of an 8-bit color at call i followed by to_rgb::<u8> *)
RoundTrip(i) ==
    /\ i + 1 \in Calls
    /\ Called(i, "to_hsv", "u8")
    /\ hist[i + 1] = [op |-> "to_rgb", args |-> <<"u8">>]

Within1(a, b) == Abs(a - b) <= 1

(* C15: for every 8-bit RGB color c, to_hsv followed by to_rgb::<u8>       *)
(* yields a color whose r, g and b each differ from c's by at most 1;      *)
(* achromatic colors reproduce their gray level.                           *)
C15_RoundTrip ==
    \A i \in Calls :
        RoundTrip(i) =>
            LET c == trace[i]
                o == trace[i + 2]
            IN  /\ Within1(c.r, o.r) /\ Within1(c.g, o.g) /\ Within1(c.b, o.b)
                /\ IsGray(c) => o = c

(* the same where to_hsv returned a hue that is not negative *)
C15_RoundTripWhereHueInTurn ==
    \A i \in Calls :
        (RoundTrip(i) /\ InTurn(trace[i + 1].h)) =>
            LET c == trace[i]
                o == trace[i + 2]
            IN  /\ Within1(c.r, o.r) /\ Within1(c.g, o.g) /\ Within1(c.b, o.b)
                /\ IsGray(c) => o = c

IsFloatValue(x) == DOMAIN x = {"m", "e"} /\ x.m \in Int /\ x.e \in Int

IsChannelValue(enc, x) ==
    CASE enc = "u8"  -> x \in 0..U8_MAX
      [] enc = "u16" -> x \in 0..U16_MAX
      [] OTHER       -> IsFloatValue(x)

IsHsvValue(c) ==
    /\ DOMAIN c = {"enc", "h", "s", "v"}
    /\ c.enc = "f32"
    /\ IsFloatValue(c.h) /\ IsFloatValue(c.s) /\ IsFloatValue(c.v)

IsRgbValue(c, U) ==
    /\ DOMAIN c = {"enc", "r", "g", "b"}
    /\ c.enc = U
    /\ IsChannelValue(U, c.r) /\ IsChannelValue(U, c.g) /\ IsChannelValue(U, c.b)

(* every re-encoding of the float color f has an outcome *)
HasRgb(f) ==
    \A x \in {f.r, f.g, f.b} :
        \A U \in {"u8", "u16", "f32"} :
            \E y \in to_channel(Chan("f32", x), U) : IsChannelValue(U, y.v)

(* C16: to_hsv and to_rgb are total: for every input, s = 0, v = 0, black  *)
(* and a hue outside [0,360) included, they return a color value and never *)
(* fail.                                                                   *)
C16_Total ==
    /\ LastCall("to_hsv") => IsHsvValue(LastResult)
    /\ LastCall("to_rgb") => IsRgbValue(LastResult, hist[Len(hist)].args[1])
    /\ IsRgb(Cur) => IsHsvValue(Rgb_to_hsv(Cur))
    /\ IsHsv(Cur) => HasRgb(Hsv_rgb_f32(Cur))

(* to_rgb::<u8> of a color with s = 0 and the hue 720 *)
C16_Witness ==
    /\ Len(hist) >= 1
    /\ hist[1] = [op |-> "to_rgb", args |-> <<"u8">>]
    /\ trace[1] = Hsv("f32", FromInt(720), zero, one)
    /\ trace[2] = Rgb("u8", 255, 255, 255)

----------------------------------------------------------------------------
(* Properties of the color algebra (specification SpecAlg) *)

RhsOperand == hist[Len(hist)].args[1]

(* C17: for all u8 RGB colors a and b, a.saturating_add(b) has components  *)
(* min(a_i + b_i, 255) and a.saturating_sub(b) has components              *)
(* max(a_i - b_i, 0), each component computed from the same component of a *)
(* and b, so neither wraps around (254 + 20 -> 255, 20 - 50 -> 0).         *)
C17_Saturating ==
    /\ LastCall("saturating_add") =>
           \A k \in {"r", "g", "b"} :
               LET sum == LastArg[k] + RhsOperand[k]
               IN  LastResult[k] = IF sum < U8_MAX THEN sum ELSE U8_MAX
    /\ LastCall("saturating_sub") =>
           \A k \in {"r", "g", "b"} :
               LET diff == LastArg[k] - RhsOperand[k]
               IN  LastResult[k] = IF diff > 0 THEN diff ELSE 0

(* RGB(254,254,254).saturating_add(RGB(20,20,20)) == RGB(255,255,255) *)
C17_Witness ==
    /\ Len(hist) >= 1
    /\ hist[1] = [op |-> "saturating_add", args |-> <<Rgb("u8", 20, 20, 20)>>]
    /\ trace[1] = Rgb("u8", 254, 254, 254)
    /\ trace[2] = Rgb("u8", 255, 255, 255)

AllMax(enc) == Rgb(enc, MaxOf(enc), MaxOf(enc), MaxOf(enc))

(* C18: for every u8 channel value v, normalized multiplication and        *)
(* division by the maximum are the identity:                               *)
(* Rgb(v,v,v) * Rgb(255,255,255) == Rgb(v,v,v) and                         *)
(* Rgb(v,v,v) / Rgb(255,255,255) == Rgb(v,v,v).                            *)
C18_MaxIsIdentity ==
    ((LastCall("mul") \/ LastCall("div")) /\ RhsOperand = AllMax("u8")) =>
        LastResult = LastArg

(* RGB(127,127,127) * RGB(255,255,255) == RGB(127,127,127) *)
C18_Witness ==
    /\ Len(hist) >= 1
    /\ hist[1] = [op |-> "mul", args |-> <<Rgb("u8", 255, 255, 255)>>]
    /\ trace[1] = Rgb("u8", 127, 127, 127)
    /\ trace[2] = Rgb("u8", 127, 127, 127)

(* RGB(127,127,127) / RGB(255,255,255) == RGB(127,127,127) *)
C18_WitnessDiv ==
    /\ Len(hist) >= 1
    /\ hist[1] = [op |-> "div", args |-> <<Rgb("u8", 255, 255, 255)>>]
    /\ trace[1] = Rgb("u8", 127, 127, 127)
    /\ trace[2] = Rgb("u8", 127, 127, 127)

(* the components of a color, the opacity of an AlphaColor included *)
Parts(x) ==
    IF IsAlpha(x) THEN <<x.c.r, x.c.g, x.c.b, x.a>> ELSE <<x.r, x.g, x.b>>

MixValue == hist[Len(hist)].args[2]

(* C19: for all colors A and B of the same type and encoding,              *)
(* mix(A, B, 0) == A and mix(A, B, max_value) == B exactly, component by   *)
(* component (including when a component of B is smaller than that of A).  *)
C19_MixBoundaries ==
    LastCall("mix") =>
        /\ MixValue = MinOf(EncOf(LastArg)) => LastResult = LastArg
        /\ MixValue = MaxOf(EncOf(LastArg)) => LastResult = RhsOperand

(* a float of [0,1] that is a multiple of 2^-24 *)
OnGrid(x) == x.m = 0 \/ x.e >= -F32_MANTISSA_DIGITS

(* the floats a and b differ by at most 2^-24 *)
Near(a, b) ==
    FLe(FAbs(FSub(a, b, F32_MANTISSA_DIGITS)), F(1, -F32_MANTISSA_DIGITS))

(* mix(A, B, 0) == A for all colors; mix(A, B, max) == B component by      *)
(* component for the integer encodings and for the f32 components where A  *)
(* and B are multiples of 2^-24 in [0,1]; any other f32 component of [0,1] *)
(* is within 2^-24 of B's.                                                 *)
C19_MixBoundariesWhereExact ==
    LastCall("mix") =>
        /\ MixValue = MinOf(EncOf(LastArg)) => LastResult = LastArg
        /\ MixValue = MaxOf(EncOf(LastArg)) =>
               \A k \in DOMAIN Parts(LastArg) :
                   LET a == Parts(LastArg)[k]
                       b == Parts(RhsOperand)[k]
                       r == Parts(LastResult)[k]
                   IN  IF IsFloat(EncOf(LastArg))
                       THEN /\ (OnGrid(a) /\ OnGrid(b)) => r = b
                            /\ (InUnit(a) /\ InUnit(b)) => Near(r, b)
                       ELSE r = b

(* mix at max_value where a component of B is smaller than that of A *)
C19_Witness ==
    /\ Len(hist) >= 1
    /\ IsRgb(trace[1]) /\ trace[1].enc = "u8"
    /\ hist[1].op = "mix"
    /\ hist[1].args = <<Rgb("u8", 0, 255, 20), U8_MAX>>
    /\ trace[1] = Rgb("u8", 254, 20, 254)
    /\ trace[2] = Rgb("u8", 0, 255, 20)

(* the step leaves every value computed so far as it was *)
ValuesKept == \A i \in 1..Len(trace) : trace'[i] = trace[i]

(* C20: no operation of the public interface mutates a color in place:     *)
(* after any sequence of operations on a color value, the components of    *)
(* the original value are unchanged and every result is a new value.       *)
C20_NoMutation == [][ValuesKept]_vars

MutRefs == {"index_mut", "as_mut"}

(* the step is a store of v through a mutable reference to component i of  *)
(* the current color: that component alone changes                         *)
StoreInPlace ==
    LET i == hist'[Len(hist')].args[1]
        v == hist'[Len(hist')].args[2]
    IN  /\ \A j \in 1..(Len(trace) - 1) : trace'[j] = trace[j]
        /\ as_ref(trace'[Len(trace)]) = [as_ref(trace[Len(trace)]) EXCEPT ![i + 1] = v]

(* every operation other than index_mut and as_mut leaves the color it is  *)
(* applied to, and every other value, unchanged and returns a new value;   *)
(* a store through index_mut or as_mut changes one component of the color  *)
(* in place.                                                               *)
C20_NoMutationButThroughMutRefs ==
    [][IF hist'[Len(hist')].op \in MutRefs THEN StoreInPlace ELSE ValuesKept]_vars

(* c[0] = 7 has changed the color RGB(0,20,254) in place *)
C20_Witness ==
    /\ Len(hist) = 2
    /\ IsRgb(trace[1]) /\ trace[1].enc = "u8"
    /\ hist[1].op = "mix"
    /\ hist[2].op = "index_mut"
    /\ hist[2].args = <<0, 7>>
    /\ trace[1] = Rgb("u8", 0, 20, 254)
    /\ trace[2] = Rgb("u8", 7, 255, 20)
    /\ trace[3] = Chan("u8", 7)

----------------------------------------------------------------------------
(* Hues outside the turn (specification SpecConv) *)

(* the re-encoding o, of encoding U, of the float gray (m, m, m) *)
IsGrayOf(o, U, ms) ==
    /\ o.enc = U
    /\ Chan(U, o.r) \in ms /\ Chan(U, o.g) \in ms /\ Chan(U, o.b) \in ms

FallbackGray(c, o, U, m) == IsGrayOf(o, U, to_channel(Chan("f32", m), U))

(* m = v - v*s, rounded to f32 *)
MatchValue(c) ==
    FSub(c.v, FMul(c.v, c.s, F32_MANTISSA_DIGITS), F32_MANTISSA_DIGITS)

(* C21: for every hue outside [0,360), h < 0 or h >= 360, to_rgb selects   *)
(* the fallback triple (0,0,0) in the sector step, so the converted color  *)
(* is the gray (m,m,m) with m = v - v*s.                                   *)
C21_FallbackOutsideTurn ==
    (LastCall("to_rgb") /\ ~InTurn(LastArg.h)) =>
        FallbackGray(LastArg, LastResult, hist[Len(hist)].args[1], MatchValue(LastArg))

(* the same for the hues h >= 360 only *)
C21_FallbackFromFullTurn ==
    (LastCall("to_rgb") /\ ~FLt(LastArg.h, FromInt(360))) =>
        FallbackGray(LastArg, LastResult, hist[Len(hist)].args[1], MatchValue(LastArg))

(* a negative hue is put in sector 0: the triple is (chr, x, 0), so that   *)
(* r is v up to rounding and b is m                                        *)
C21_NegativeHueInSectorZero ==
    (LastCall("to_rgb") /\ FLt(LastArg.h, zero) /\ hist[Len(hist)].args[1] = "f32") =>
        /\ Near(LastResult.r, LastArg.v)
        /\ LastResult.b = MatchValue(LastArg)

----------------------------------------------------------------------------
(* Failures and the operators with a scalar (specification SpecOps) *)

LastOp == hist[Len(hist)].op

PackedToHsvCalled == LastCall("to_hsv") /\ IsPacked(LastArg)

(* C22: the only operation that can fail at run time is to_hsv on a packed *)
(* integer (u32 or u64), which fails unconditionally with "Not yet         *)
(* implemented" and never returns a value; every other operation returns a *)
(* value for every input.                                                  *)
C22_OnlyPackedToHsvFails ==
    Len(hist) >= 1 =>
        /\ PackedToHsvCalled => LastResult = Fail("Not yet implemented")
        /\ IsFail(LastResult) => PackedToHsvCalled

IntegerColor(c) == IsRgb(c) /\ ~IsFloat(c.enc)

DividedByZero ==
    LastCall("div_scalar") /\ IntegerColor(LastArg) /\ RhsOperand = 0

(* the exact result of an integer +, - or scalar * is outside the range of *)
(* the type for some component                                             *)
OutOfRange(c, x) == x < 0 \/ x > IntMax(c.enc)

Overflows ==
    /\ IntegerColor(LastArg)
    /\ \/ LastOp = "mul_scalar" /\ \E k \in {"r", "g", "b"} :
              OutOfRange(LastArg, LastArg[k] * RhsOperand)
       \/ LastOp = "add" /\ \E k \in {"r", "g", "b"} :
              OutOfRange(LastArg, LastArg[k] + RhsOperand[k])
       \/ LastOp = "sub" /\ \E k \in {"r", "g", "b"} :
              OutOfRange(LastArg, LastArg[k] - RhsOperand[k])

(* to_hsv on a packed integer fails unconditionally with "Not yet          *)
(* implemented", and the division of an integer color by the scalar 0      *)
(* fails unconditionally; the only other failure is the overflow of an     *)
(* integer +, - or scalar *; every other call returns a value.             *)
C22_FailuresOfPackedAndIntegers ==
    Len(hist) >= 1 =>
        /\ PackedToHsvCalled => LastResult = Fail("Not yet implemented")
        /\ DividedByZero => IsFail(LastResult)
        /\ IsFail(LastResult) => (PackedToHsvCalled \/ DividedByZero \/ Overflows)

(* 0x336699.to_hsv() fails *)
C22_Witness ==
    /\ Len(hist) = 1
    /\ hist[1].op = "to_hsv"
    /\ IsPacked(trace[1]) /\ trace[1].bits = 32 /\ trace[1].n = 3368601
    /\ IsFail(trace[2])

(* Rgb(20, 0, 200) / 0 fails *)
C22_WitnessDivision ==
    /\ Len(hist) = 1
    /\ hist[1].op = "div_scalar"
    /\ IsRgb(trace[1]) /\ trace[1].enc = "u8" /\ hist[1].args[1] = 0
    /\ IsFail(trace[2])

(* x brought into [0,1] *)
ToUnit(x) == IF FLt(x, zero) THEN zero ELSE IF FLt(one, x) THEN one ELSE x

RawProducts(c, o, k, p) ==
    o = Rgb(c.enc, FMul(c.r, k, p), FMul(c.g, k, p), FMul(c.b, k, p))

RawQuotients(c, o, k, p) ==
    o = Rgb(c.enc, FDiv(c.r, k, p), FDiv(c.g, k, p), FDiv(c.b, k, p))

(* the 8-bit product of two fractions of 255 *)
NormalizedProducts(c, o, rhs) ==
    \A k \in {"r", "g", "b"} : o[k] = (c[k] * rhs[k]) \div U8_MAX

(* the 8-bit product by a scalar, where it does not fail *)
RawIntegerProducts(c, o, k) ==
    IsRgb(o) => \A i \in {"r", "g", "b"} : o[i] = (c[i] * k) % (U8_MAX + 1)

(* C23: color-by-color multiplication is normalized (both operands taken   *)
(* as fractions of the encoding's maximum), whereas color-by-scalar        *)
(* multiplication and division are the raw, unclamped channel operation on *)
(* each component: for every float Rgb c and scalar k, c * k has the       *)
(* components (c.r*k, c.g*k, c.b*k) and c / k the components (c.r/k,       *)
(* c.g/k, c.b/k), rounded to f32 (Rgb(1,1,1) * 2.0 == Rgb(2,2,2)), and     *)
(* saturate() brings each component back into [0,1].                       *)
C23_ScalarIsRaw ==
    /\ (LastCall("mul_scalar") /\ LastArg.enc = "f32") =>
           RawProducts(LastArg, LastResult, RhsOperand, F32_MANTISSA_DIGITS)
    /\ (LastCall("div_scalar") /\ LastArg.enc = "f32") =>
           RawQuotients(LastArg, LastResult, RhsOperand, F32_MANTISSA_DIGITS)
    /\ (LastCall("mul_scalar") /\ LastArg.enc = "u8") =>
           RawIntegerProducts(LastArg, LastResult, RhsOperand)
    /\ LastCall("mul") => NormalizedProducts(LastArg, LastResult, RhsOperand)
    /\ LastCall("saturate") =>
           /\ LastResult = Rgb("f32", ToUnit(LastArg.r), ToUnit(LastArg.g), ToUnit(LastArg.b))
           /\ InGamut(LastResult)

(* (Rgb(1.0, 1.0, 1.0) * 2.0).saturate() == Rgb(1.0, 1.0, 1.0) *)
C23_Witness ==
    /\ Len(hist) = 2
    /\ IsRgb(trace[1]) /\ trace[1].enc = "f32"
    /\ trace[1] = Rgb("f32", one, one, one)
    /\ hist[1].op = "mul_scalar" /\ hist[1].args[1] = F(1, 1)
    /\ trace[2] = Rgb("f32", F(1, 1), F(1, 1), F(1, 1))
    /\ hist[2].op = "saturate"
    /\ trace[3] = Rgb("f32", one, one, one)

----------------------------------------------------------------------------
(* Colors with an alpha channel (specification SpecAlpha) *)

LastArgs == hist[Len(hist)].args

(* the channel operation on the alpha a alone *)
AlphaClamped(enc, a, lo, hi) == clamp(Chan(enc, a), Chan(enc, lo), Chan(enc, hi)).v

AlphaInverted(enc, a) == IF enc = "u8" THEN U8_MAX - a ELSE FSub(one, a, Digits(enc))

(* the result o is the color operation on x.c alone, paired with the       *)
(* channel operation on x.a alone                                          *)
Forwarded(x, o, op, args) ==
    CASE op = "clamp_s" ->
             /\ o.c = Rgb_clamp_s(x.c, args[1], args[2])
             /\ o.a = AlphaClamped(x.c.enc, x.a, args[1], args[2])
      [] op = "clamp_c" ->
             /\ o.c = Rgb_clamp_c(x.c, args[1].c, args[2].c)
             /\ o.a = AlphaClamped(x.c.enc, x.a, args[1].a, args[2].a)
      [] op = "inverse" ->
             /\ o.c = Rgb_inverse(x.c)
             /\ o.a = AlphaInverted(x.c.enc, x.a)
      [] op = "mix" ->
             /\ o.c = Rgb_mix(x.c, args[1].c, args[2])
             /\ o.a = mix(x.c.enc, x.a, args[1].a, args[2])

(* C24: for every AlphaColor {c, a}, each of clamp_s, clamp_c, inverse and *)
(* mix returns an AlphaColor whose color part is that same operation       *)
(* applied to c alone and whose alpha is the corresponding channel         *)
(* operation (clamp, invert_channel, mix) applied to a alone: the color    *)
(* part of the result does not depend on a, nor its alpha on c.            *)
C24_AlphaForwards ==
    (Len(hist) >= 1 /\ IsAlpha(LastArg)) =>
        /\ IsAlpha(LastResult)
        /\ Forwarded(LastArg, LastResult, LastOp, LastArgs)

(* the inverse of the 8-bit color (20, 128, 254) with alpha 127 *)
C24_Witness ==
    /\ Len(hist) = 1
    /\ hist[1].op = "inverse"
    /\ IsAlpha(trace[1]) /\ trace[1].c.enc = "u8"
    /\ trace[1] = AlphaColor(Rgb("u8", 20, 128, 254), 127)
    /\ trace[2] = AlphaColor(Rgb("u8", 235, 127, 1), 128)

(* a clamp of a float color with alpha 1 between the bounds 0.5 and 0.6 *)
C24_WitnessClamp ==
    /\ Len(hist) = 1
    /\ hist[1].op = "clamp_s"
    /\ IsAlpha(trace[1]) /\ trace[1].c.enc = "f32"
    /\ trace[1] = AlphaColor(Rgb("f32", zero, F(1, -2), one), one)
    /\ hist[1].args = <<F(1, -2), F(5033165, -23)>>
    /\ trace[2] = AlphaColor(Rgb("f32", F(1, -2), F(1, -2), F(5033165, -23)),
                             F(5033165, -23))

----------------------------------------------------------------------------
(* Hsv::normalize applied twice (specification SpecHsv) *)

(* normalize at call i followed by normalize *)
TwoNormalizes(i) ==
    /\ i + 1 \in Calls
    /\ hist[i].op = "normalize"
    /\ hist[i + 1].op = "normalize"

(* C25: Hsv::normalize is idempotent: for every HSV value c, of any hue,   *)
(* a hue below -360 included, and any s and v,                             *)
(* normalize(normalize(c)) == normalize(c).                                *)
C25_NormalizeIdempotent ==
    \A i \in Calls : TwoNormalizes(i) => trace[i + 2] = trace[i + 1]

(* the same for the hues h >= -360; s and v are kept by the second         *)
(* normalize for every hue                                                 *)
C25_NormalizeIdempotentFromMinusTurn ==
    \A i \in Calls :
        TwoNormalizes(i) =>
            /\ trace[i + 2].s = trace[i + 1].s
            /\ trace[i + 2].v = trace[i + 1].v
            /\ ~FLt(trace[i].h, FromInt(-360)) => trace[i + 2] = trace[i + 1]

----------------------------------------------------------------------------
(* The ranges of the conversions (specification SpecConv) *)

(* every component of c lies in [0, max] of its encoding *)
InRange(c) == IsFloat(c.enc) => InGamut(c)

(* s = chr / mx is computed only where mx is positive *)
DivisorPositive(mx, chr) == chr # zero => FLt(zero, mx)

UnitSaturationValue(o, mx, mn, p) ==
    /\ InUnit(o.s) /\ InUnit(o.v)
    /\ DivisorPositive(mx, FSub(mx, mn, p))

UnitSaturationValueIn(o, x, p) ==
    UnitSaturationValue(o, Max3(x.r, x.g, x.b), Min3(x.r, x.g, x.b), p)

(* C26: for every RGB input whose components lie within [0, max] of its    *)
(* encoding, to_hsv returns s in [0,1] and v in [0,1], and the division    *)
(* s = chroma/max never divides by zero: a non-zero chroma implies max > 0. *)
C26_SaturationValueInUnit ==
    (LastCall("to_hsv") /\ InRange(LastArg)) =>
        UnitSaturationValueIn(LastResult, Components(LastArg), F32_MANTISSA_DIGITS)

(* RGB(0xFF, 0x33, 0x33): s lies strictly between 0 and 1, v = 1 *)
C26_Witness ==
    /\ Len(hist) >= 1
    /\ hist[1].op = "to_hsv"
    /\ trace[1] = Rgb("u8", 255, 51, 51)
    /\ FLt(zero, trace[2].s) /\ FLt(trace[2].s, one)
    /\ trace[2].v = one

(* to_rgb::<f32> of an Hsv value with h in [0,360) and s, v in [0,1]: the  *)
(* result is the float triple before the re-encoding                       *)
FloatTripleOfTurn ==
    /\ LastCall("to_rgb") /\ LastArgs[1] = "f32"
    /\ InTurn(LastArg.h) /\ InUnit(LastArg.s) /\ InUnit(LastArg.v)

Between(o, lo, hi) ==
    \A x \in {o.r, o.g, o.b} : FLe(lo, x) /\ FLe(x, hi)

Extremes(o, lo, hi) ==
    /\ Max3(o.r, o.g, o.b) = hi
    /\ Min3(o.r, o.g, o.b) = lo

(* C27: for every HSV value with h in [0,360) and s, v in [0,1], each of   *)
(* the three float components computed by to_rgb before the re-encoding    *)
(* lies in [v - v*s, v], a subset of [0,1], the largest being v and the    *)
(* smallest v - v*s, so that the truncating cast to u8 or u16 never        *)
(* receives a value outside the representable range.                       *)
C27_ComponentsBetween ==
    FloatTripleOfTurn =>
        /\ Between(LastResult, MatchValue(LastArg), LastArg.v)
        /\ Extremes(LastResult, MatchValue(LastArg), LastArg.v)
        /\ InGamut(LastResult)

(* each component lies in [0,1], the smallest is v - v*s as computed, and  *)
(* the largest, the f32 sum of v*s and v - v*s, is within 2^-24 of v       *)
C27_ComponentsInUnit ==
    FloatTripleOfTurn =>
        /\ InGamut(LastResult)
        /\ Min3(LastResult.r, LastResult.g, LastResult.b) = MatchValue(LastArg)
        /\ Near(Max3(LastResult.r, LastResult.g, LastResult.b), LastArg.v)

(* HSV(30, 0.35, 0.8): the largest component is the f32 below 0.8 *)
C27_Witness ==
    /\ Len(hist) = 1
    /\ hist[1] = [op |-> "to_rgb", args |-> <<"f32">>]
    /\ IsHsv(trace[1])
    /\ trace[1] = Hsv("f32", F(30, 0), F(11744051, -25), F(13421773, -24))
    /\ trace[2].r = F(3355443, -22)
    /\ FLt(trace[2].r, trace[1].v)

============================================================================
